---- MODULE Spec2Model ----
(***************************************************************************)
(* A model of irrtree: the two-phase concurrent crawl of an IRR registry   *)
(* (irrtree_process, Worker, join_queue_or_workers) and the cycle-safe     *)
(* origin resolver (get_origin_asns).                                      *)
(*                                                                         *)
(* Identifiers are sequences of characters, so that the lexical tests of   *)
(* the code ("-" in member, the regular expressions, str.upper) are        *)
(* computed as the code computes them.                                     *)
(***************************************************************************)
EXTENDS Integers, Sequences, FiniteSets, TLC

(***************************************************************************)
(* Bounds of the model.                                                    *)
(***************************************************************************)
\* number of Worker objects (irr_server_options.workers)
NumWorkers == 2
\* irr_server_options.max_restarts is drawn from 0..MaxRestartsBound
MaxRestartsBound == 1
\* the resolver is run on graphs whose AS-SETs have at most MaxMembers members
MaxMembers == 3

Workers == 0 .. (NumWorkers - 1)

(***************************************************************************)
(* Identifiers and the lexical tests of datamodels.py                      *)
(***************************************************************************)
ASR == <<"A", "S", "-", "R">>
ASA == <<"A", "S", "-", "A">>
ASB == <<"A", "S", "-", "B">>
AS1 == <<"A", "S", "1">>
AS2 == <<"A", "S", "2">>
\* the registry may answer in lower case
asb == <<"a", "s", "-", "b">>
\* an object that is no routing object (mbrs-by-ref)
MNT == <<"M", "N", "T", "-", "X">>

Digits == {"0", "1", "2", "3", "4", "5", "6", "7", "8", "9"}

UpperChar(c) ==
  CASE c = "a" -> "A"
    [] c = "s" -> "S"
    [] c = "b" -> "B"
    [] c = "r" -> "R"
    [] OTHER -> c

\* str.upper()
Upper(x) == [i \in 1 .. Len(x) |-> UpperChar(x[i])]

\* "-" in x
HasHyphen(x) == \E i \in 1 .. Len(x) : x[i] = "-"

\* re_starts_asn = ^[aA][sS]
re_starts_asn(x) == Len(x) >= 2 /\ x[1] \in {"a", "A"} /\ x[2] \in {"s", "S"}

\* re_asn = ^[aA][sS]\d+   (no end anchor)
re_asn(x) == re_starts_asn(x) /\ Len(x) >= 3 /\ x[3] \in Digits

\* re_as_set = ^[aA][sS]-.*
re_as_set(x) == re_starts_asn(x) /\ Len(x) >= 3 /\ x[3] = "-"

\* a test for AS-SETs made with re_as_set
is_as_set_by_re_as_set(x) == re_as_set(x)

\* is_as_set, lines 25-30
is_as_set(x) == re_starts_asn(x) /\ HasHyphen(x)

\* a validation that keeps the tokens as the registry wrote them
ValidMembersAsSent(unfiltered) ==
  {t \in unfiltered : re_asn(t) \/ re_as_set(t)}

\* Worker.get_members, lines 156-168: validation of the returned tokens
ValidMembers(unfiltered) ==
  {Upper(t) : t \in {r \in unfiltered : re_asn(r) \/ re_as_set(r)}}

(***************************************************************************)
(* What the registry may send.                                             *)
(***************************************************************************)
\* the root AS-SET given on the command line
Root == ASR
\* tokens of a member answer
RawTokens == {ASA, asb, AS1, ASR}
\* tokens of a prefix answer
Prefixes == {<<"p">>}
\* first line of an answer: end-of-stream, no data, error, data, anything else
StatusLines == {"", "D", "F", "A", "X"}
\* the exclusion sets tried (irr_server_options.filters)
FilterChoices == {{}, {ASB, ASR}}

\* all sequences enumerating the set S
Orders(S) ==
  {f \in [1 .. Cardinality(S) -> S] : \A i, j \in 1 .. Cardinality(S) : i # j => f[i] # f[j]}

EmptyMap == [x \in {} |-> {}]

\* the elements of a sequence
Range(q) == {q[i] : i \in 1 .. Len(q)}

VARIABLES
  coord,               \* where irrtree_process stands
  error,               \* the exception irrtree_process ended with
  queue,               \* asyncio.Queue: the items
  unfinished,          \* asyncio.Queue: _unfinished_tasks
  joined,              \* queue_join_task is done
  members_per_asset,   \* the Membership Graph
  visited,
  prefixes_per_autun,  \* the Prefix Set
  filters,             \* irr_server_options.filters
  max_restarts,        \* irr_server_options.max_restarts
  pc,                  \* per worker: where its run_* coroutine is suspended
  item,                \* per worker: the identifier it holds
  results,             \* per worker: Worker.query's local `results`
  restarts,            \* per worker: Worker.restarts
  exc,                 \* per worker: the exception its task ended with
  taskA,               \* per worker: state of its Phase A task
  taskB,               \* per worker: state of its Phase B task
  \* history variables
  answer,              \* identifier -> what get_members returned for it
  enqueued,            \* identifier -> number of put_nowait calls
  asked,               \* identifier -> number of get_members / prefix queries
  eofs,                \* per worker: end-of-streams read on a status line
  restarted,           \* per worker: calls of Worker.restart
  \* the origin resolver
  as_sets_members,     \* the graph given to get_origin_asns_from_members
  rstack,              \* the active calls of get_origin_asns, root first
  origin_ases_per_asset, \* the finalized closures (the memo)
  recursive_as_sets,   \* the Deferred-Resolution Table
  rstate,              \* "run", "returned", or how resolution failed
  root_rp,             \* the recursive parent returned for the root
  calls,               \* history: calls of get_origin_asns that traverse
  \* the aggregation at the end of irrtree_process
  number_prefixes_per_asset,
  number_origin_asn_per_asset,
  agg,                 \* "none", "done", or "exception"
  \* one call of Worker.get_members or Worker.query, line by line
  s_pc,                \* where the call stands
  s_cmd,               \* "i" (get_members) or "g" (prefixes)
  s_as_set,            \* the object asked for
  s_restarts,          \* Worker.restarts
  s_results,           \* Worker.query's local `results`
  s_out,               \* what the call returned
  s_exc,               \* the exception the call raised
  s_reads,             \* history: the lines read, with where they were read
  s_sent,              \* history: number of times the command was sent
  s_sources,           \* server.sources_list is set
  s_conn,              \* the connection that self.reader and self.writer are
  s_wire,              \* history: what was done on which connection
  \* one call of a graph transformation
  t_pc,                \* "input", or the function that was applied
  t_graph,             \* the graph given to the function
  t_arg,               \* its set argument (allowed AUT-NUMs, exclusions)
  t_new,               \* the graph it returned
  t_removed,           \* the removed links it returned
  t_exc,               \* the exception it raised, or "none"
  t_objects,           \* the member sets of the given mapping, as they are now
  t_new_ids,           \* which set object each key of the returned graph holds
  \* one identifier through the lexical tests
  l_pc,                \* "input", "tested" or "validated"
  l_x,                 \* the identifier, as the registry or the user wrote it
  l_is_as_set,         \* what is_as_set returned for it
  l_members,           \* what the validation of get_members kept of it
  l_enqueue,           \* the members that run_get_tree takes for AS-SETs
  \* one Result Structure printed, parsed and printed again
  p_pc,                \* "input", "printed", "parsed" or "printed_again"
  p_data,              \* the IRRAsciiTreeData given to print_asset_tree
  p_server,            \* host, afi and date of the IRRServerOptions
  p_sorting,           \* sorting_option of the IRRAsciiTreeOptions
  p_text,              \* what print_asset_tree returned
  p_parsed,            \* what parse_irrtree_return_irrasciitreedata returned
  p_exc,               \* the exception the parser raised, or "none"
  p_text3,             \* the parsed data, printed
  \* two crawls of one registry, with and without the exclusion set
  q_pc,                \* where the comparison stands
  q_root,              \* root_as_set as the caller wrote it
  q_filters,           \* irr_server_options.filters as the caller wrote them
  q_registry,          \* AS-SET -> the tokens the registry answers
  q_backwards,         \* the order in which new members are put on the queue
  q_crawled,           \* the crawl with the exclusion set
  q_base,              \* the crawl with an empty exclusion set
  q_filtered           \* filter_from_graph on q_base

vars ==
  <<coord, error, queue, unfinished, joined, members_per_asset, visited,
    prefixes_per_autun, filters, max_restarts, pc, item, results, restarts,
    exc, taskA, taskB, answer, enqueued, asked, eofs, restarted,
    as_sets_members, rstack, origin_ases_per_asset, recursive_as_sets,
    rstate, root_rp, calls, number_prefixes_per_asset,
    number_origin_asn_per_asset, agg,
    s_pc, s_cmd, s_as_set, s_restarts, s_results, s_out, s_exc, s_reads,
    s_sent, s_sources, s_conn, s_wire,
    t_pc, t_graph, t_arg, t_new, t_removed, t_exc, t_objects, t_new_ids,
    l_pc, l_x, l_is_as_set, l_members, l_enqueue,
    p_pc, p_data, p_server, p_sorting, p_text, p_parsed, p_exc, p_text3,
    q_pc, q_root, q_filters, q_registry, q_backwards, q_crawled, q_base, q_filtered>>

crawl_vars ==
  <<coord, error, queue, unfinished, joined, members_per_asset, visited,
    prefixes_per_autun, filters, max_restarts, pc, item, results, restarts,
    exc, taskA, taskB, answer, enqueued, asked, eofs, restarted>>

agg_vars == <<number_prefixes_per_asset, number_origin_asn_per_asset, agg>>

resolver_vars ==
  <<as_sets_members, rstack, origin_ases_per_asset, recursive_as_sets,
    rstate, root_rp, calls, agg_vars>>

session_vars ==
  <<s_pc, s_cmd, s_as_set, s_restarts, s_results, s_out, s_exc, s_reads,
    s_sent, s_sources, s_conn, s_wire>>

transform_vars ==
  <<t_pc, t_graph, t_arg, t_new, t_removed, t_exc, t_objects, t_new_ids>>

lexer_vars ==
  <<l_pc, l_x, l_is_as_set, l_members, l_enqueue>>

printer_vars ==
  <<p_pc, p_data, p_server, p_sorting, p_text, p_parsed, p_exc, p_text3>>

compare_vars ==
  <<q_pc, q_root, q_filters, q_registry, q_backwards, q_crawled, q_base, q_filtered>>

\* what the crawl leaves alone
non_crawl_vars == <<resolver_vars, session_vars, transform_vars, lexer_vars, printer_vars, compare_vars>>

\* what the resolver leaves alone
non_resolver_vars == <<crawl_vars, session_vars, transform_vars, lexer_vars, printer_vars, compare_vars>>

AllIds == {Upper(t) : t \in RawTokens} \cup {Root, AS2}

None == <<>>

\* the exceptions irrtree_process can end with
NoError == [kind |-> "none", worker |-> -1, exc |-> "none"]
WorkerError(w, e) == [kind |-> "worker", worker |-> w, exc |-> e]
InvalidStateError == [kind |-> "InvalidStateError", worker |-> -1, exc |-> "none"]
CancelledError == [kind |-> "CancelledError", worker |-> -1, exc |-> "none"]

\* the exceptions one call of get_members or query can end with: `answer`
\* is the status line quoted in the message
NoExc == [kind |-> "none", answer |-> <<>>]

(***************************************************************************)
(* irrtree_process up to its first suspension in join_queue_or_workers     *)
(***************************************************************************)
\* the resolver has not been called
ResolverIdle ==
  /\ as_sets_members = EmptyMap
  /\ rstack = <<>>
  /\ origin_ases_per_asset = EmptyMap
  /\ recursive_as_sets = EmptyMap
  /\ rstate = "idle"
  /\ root_rp = None
  /\ calls = 0
  /\ number_prefixes_per_asset = EmptyMap
  /\ number_origin_asn_per_asset = EmptyMap
  /\ agg = "none"

\* no single call is followed
SessionIdle ==
  /\ s_pc = "idle"
  /\ s_cmd = "none"
  /\ s_as_set = None
  /\ s_restarts = 0
  /\ s_results = {}
  /\ s_out = {}
  /\ s_exc = NoExc
  /\ s_reads = <<>>
  /\ s_sent = 0
  /\ s_sources = FALSE
  /\ s_conn = 0
  /\ s_wire = <<>>

\* no graph transformation is applied
TransformIdle ==
  /\ t_pc = "idle"
  /\ t_graph = EmptyMap
  /\ t_arg = {}
  /\ t_new = EmptyMap
  /\ t_removed = {}
  /\ t_exc = "none"
  /\ t_objects = EmptyMap
  /\ t_new_ids = EmptyMap

LexerIdle ==
  /\ l_pc = "idle"
  /\ l_x = <<>>
  /\ l_is_as_set = FALSE
  /\ l_members = {}
  /\ l_enqueue = {}

PrinterIdle ==
  /\ p_pc = "idle"
  /\ p_data = <<>>
  /\ p_server = <<>>
  /\ p_sorting = "none"
  /\ p_text = <<>>
  /\ p_parsed = <<>>
  /\ p_exc = "none"
  /\ p_text3 = <<>>

CompareIdle ==
  /\ q_pc = "idle"
  /\ q_root = <<>>
  /\ q_filters = {}
  /\ q_registry = EmptyMap
  /\ q_backwards = FALSE
  /\ q_crawled = <<>>
  /\ q_base = <<>>
  /\ q_filtered = <<>>

InitCrawl ==
  /\ ResolverIdle
  /\ SessionIdle
  /\ TransformIdle
  /\ LexerIdle
  /\ PrinterIdle
  /\ CompareIdle
  /\ coord = "joinA"
  /\ error = NoError
  /\ queue = <<Root>>
  /\ unfinished = 1
  /\ joined = FALSE
  /\ members_per_asset = EmptyMap
  /\ visited = {Root}
  /\ prefixes_per_autun = EmptyMap
  /\ filters \in FilterChoices
  /\ max_restarts \in 0 .. MaxRestartsBound
  /\ pc = [w \in Workers |-> "get"]
  /\ item = [w \in Workers |-> None]
  /\ results = [w \in Workers |-> {}]
  /\ restarts = [w \in Workers |-> max_restarts]
  /\ exc = [w \in Workers |-> "none"]
  /\ taskA = [w \in Workers |-> "pending"]
  /\ taskB = [w \in Workers |-> "none"]
  /\ answer = EmptyMap
  /\ enqueued = [i \in AllIds |-> IF i = Root THEN 1 ELSE 0]
  /\ asked = [i \in AllIds |-> 0]
  /\ eofs = [w \in Workers |-> 0]
  /\ restarted = [w \in Workers |-> 0]

(***************************************************************************)
(* The worker tasks.  A task runs from one suspension point to the next    *)
(* without interleaving (cooperative scheduling).                          *)
(***************************************************************************)
\* the task of worker w in the running phase is alive
Running(w) ==
  \/ coord = "joinA" /\ taskA[w] = "pending"
  \/ coord = "joinB" /\ taskB[w] = "pending"

\* a worker that marks its item done on the way out (try/finally)
RaiseMarkingDone(w, e) ==
  /\ pc' = [pc EXCEPT ![w] = "dead"]
  /\ unfinished' = unfinished - 1
  /\ joined' = (joined \/ unfinished - 1 = 0)
  /\ exc' = [exc EXCEPT ![w] = e]
  /\ IF coord = "joinA"
     THEN taskA' = [taskA EXCEPT ![w] = "failed"] /\ UNCHANGED taskB
     ELSE taskB' = [taskB EXCEPT ![w] = "failed"] /\ UNCHANGED taskA

\* the task of worker w ends with exception e: it leaves its loop without
\* reaching queue.task_done()
Raise(w, e) ==
  /\ pc' = [pc EXCEPT ![w] = "dead"]
  /\ UNCHANGED <<unfinished, joined>>
  /\ exc' = [exc EXCEPT ![w] = e]
  /\ IF coord = "joinA"
     THEN taskA' = [taskA EXCEPT ![w] = "failed"] /\ UNCHANGED taskB
     ELSE taskB' = [taskB EXCEPT ![w] = "failed"] /\ UNCHANGED taskA

\* a crawl that forgets the exclusion set
AdjacencyUnfiltered(unfiltered_sets, filtered_as_sets) == unfiltered_sets

\* run_get_tree, lines 214-216: the adjacency recorded for a query result
Adjacency(unfiltered_sets, filtered_as_sets) ==
  {m \in unfiltered_sets : m \notin filtered_as_sets}

\* a crawl that only looks at the recorded adjacencies, not at `visited`
ToEnqueueUnvisited(members, seen, graph) ==
  {m \in members : HasHyphen(m) /\ m \notin DOMAIN graph}

\* run_get_tree, lines 219-227: the members put on the queue
ToEnqueue(members, seen, graph) ==
  {m \in members : HasHyphen(m) /\ m \notin seen /\ m \notin DOMAIN graph}

\* a worker that calls task_done() before it puts the new members
JoinWokenDoneFirst(n, puts) == n - 1 = 0

\* queue.join() is woken by the task_done() that brings the count of
\* unfinished items (n) to zero; the worker has put `puts` items before it
\* calls task_done()
JoinWoken(n, puts) == n + puts - 1 = 0

\* a worker that puts the new members without adding them to `visited`
RecordMembersNotVisited(w, members) ==
  LET adj == Adjacency(members, filters)
      graph == (item[w] :> adj) @@ members_per_asset
      new == ToEnqueue(adj, visited, graph)
  IN /\ members_per_asset' = graph
     /\ answer' = (item[w] :> members) @@ answer
     /\ visited' = visited
     /\ \E ord \in Orders(new) : queue' = queue \o ord
     /\ enqueued' = [i \in AllIds |-> IF i \in new THEN enqueued[i] + 1 ELSE enqueued[i]]
     /\ unfinished' = unfinished + Cardinality(new) - 1
     /\ joined' = (joined \/ JoinWoken(unfinished, Cardinality(new)))
     /\ UNCHANGED prefixes_per_autun

\* run_get_tree, lines 213-229, after get_members has returned `members`
RecordMembers(w, members) ==
  LET adj == Adjacency(members, filters)
      graph == (item[w] :> adj) @@ members_per_asset
      new == ToEnqueue(adj, visited, graph)
  IN /\ members_per_asset' = graph
     /\ answer' = (item[w] :> members) @@ answer
     /\ visited' = visited \cup new
     /\ \E ord \in Orders(new) : queue' = queue \o ord
     /\ enqueued' = [i \in AllIds |-> IF i \in new THEN enqueued[i] + 1 ELSE enqueued[i]]
     /\ unfinished' = unfinished + Cardinality(new) - 1
     /\ joined' = (joined \/ JoinWoken(unfinished, Cardinality(new)))
     /\ UNCHANGED prefixes_per_autun

\* run_resolve_objects, lines 256-262, after query has returned `prefixes`
RecordPrefixes(w, prefixes) ==
  /\ prefixes_per_autun' = (item[w] :> prefixes) @@ prefixes_per_autun
  /\ unfinished' = unfinished - 1
  /\ joined' = (joined \/ JoinWoken(unfinished, 0))
  /\ UNCHANGED <<members_per_asset, answer, visited, queue, enqueued>>

\* Worker.query has returned `res` to the run_* loop of worker w, which goes
\* on to its next queue.get()
Returned(w, res) ==
  /\ IF coord = "joinA"
     THEN RecordMembers(w, ValidMembers(res))
     ELSE RecordPrefixes(w, res)
  /\ pc' = [pc EXCEPT ![w] = "get"]
  /\ item' = [item EXCEPT ![w] = None]
  /\ results' = [results EXCEPT ![w] = {}]
  /\ UNCHANGED <<exc, taskA, taskB>>

\* item = await self.queue.get(), and what follows up to the first read of
\* the answer (run_get_tree 200-213, run_resolve_objects 241-258,
\* get_members 150-155, query 121-124, send_and_receive 95-96)
Get(w) ==
  /\ UNCHANGED non_crawl_vars
  /\ Running(w)
  /\ pc[w] = "get"
  /\ queue # <<>>
  /\ LET it == Head(queue)
         known == IF coord = "joinA"
                  THEN it \in DOMAIN members_per_asset
                  ELSE it \in DOMAIN prefixes_per_autun
         refused == IF coord = "joinA" THEN ~is_as_set(it) ELSE HasHyphen(it)
     IN /\ queue' = Tail(queue)
        /\ IF coord = "joinB" /\ refused
           THEN \* "Resolving as-sets is not yet implemented"
                /\ Raise(w, "not_implemented")
                /\ item' = [item EXCEPT ![w] = it]
                /\ UNCHANGED asked
           ELSE IF known
           THEN \* reprocessing: only task_done
                /\ unfinished' = unfinished - 1
                /\ joined' = (joined \/ JoinWoken(unfinished, 0))
                /\ UNCHANGED <<pc, item, exc, taskA, taskB, asked>>
           ELSE IF refused
           THEN \* get_members: "does not look like an as-set"
                /\ Raise(w, "not_an_as_set")
                /\ item' = [item EXCEPT ![w] = it]
                /\ UNCHANGED asked
           ELSE /\ pc' = [pc EXCEPT ![w] = "status"]
                /\ item' = [item EXCEPT ![w] = it]
                /\ asked' = [asked EXCEPT ![it] = @ + 1]
                /\ UNCHANGED <<unfinished, joined, exc, taskA, taskB>>
  /\ UNCHANGED <<coord, error, members_per_asset, visited, prefixes_per_autun,
                 filters, max_restarts, results, restarts, answer, enqueued,
                 eofs, restarted>>

\* a session that tests the budget before it takes a unit from it
EndOfStreamTestFirst(w) ==
  /\ eofs' = [eofs EXCEPT ![w] = @ + 1]
  /\ IF restarts[w] < 0
     THEN /\ Raise(w, "restarts_exhausted")
          /\ UNCHANGED <<restarted, restarts>>
     ELSE /\ restarts' = [restarts EXCEPT ![w] = @ - 1]
          /\ restarted' = [restarted EXCEPT ![w] = @ + 1]
          /\ \E ok \in BOOLEAN :
               IF ok
               THEN UNCHANGED <<pc, exc, taskA, taskB, unfinished, joined>>
               ELSE Raise(w, "restart_failed")
  /\ UNCHANGED <<item, results, queue, members_per_asset, visited,
                 prefixes_per_autun, answer, enqueued>>

\* send_and_receive, lines 97-108: the status line was an end-of-stream
EndOfStream(w) ==
  /\ restarts' = [restarts EXCEPT ![w] = @ - 1]
  /\ eofs' = [eofs EXCEPT ![w] = @ + 1]
  /\ IF restarts'[w] < 0
     THEN /\ Raise(w, "restarts_exhausted")
          /\ UNCHANGED restarted
     ELSE /\ restarted' = [restarted EXCEPT ![w] = @ + 1]
          /\ \E ok \in BOOLEAN :
               IF ok
               THEN \* handshake done, the command is sent again
                    UNCHANGED <<pc, exc, taskA, taskB, unfinished, joined>>
               ELSE Raise(w, "restart_failed")
  /\ UNCHANGED <<item, results, queue, members_per_asset, visited,
                 prefixes_per_autun, answer, enqueued>>

\* a query that records an empty answer before it raises
ServerErrorAfterRecording(w) ==
  /\ Raise(w, "server_error")
  /\ IF coord = "joinA"
     THEN /\ members_per_asset' = (item[w] :> {}) @@ members_per_asset
          /\ UNCHANGED prefixes_per_autun
     ELSE /\ prefixes_per_autun' = (item[w] :> {}) @@ prefixes_per_autun
          /\ UNCHANGED members_per_asset
  /\ UNCHANGED <<item, results, queue, visited, answer, enqueued, restarts,
                 eofs, restarted>>

\* query, lines 127-132: the status line starts with F, the query raises
\* and the task of the worker ends
ServerError(w) ==
  /\ Raise(w, "server_error")
  /\ UNCHANGED <<item, results, queue, members_per_asset, visited,
                 prefixes_per_autun, answer, enqueued, restarts, eofs,
                 restarted>>

\* query, lines 124-147: the first line of the answer has arrived
Status(w) ==
  /\ UNCHANGED non_crawl_vars
  /\ Running(w)
  /\ pc[w] = "status"
  /\ \E line \in StatusLines :
       CASE line = "" -> EndOfStream(w)
         [] line = "D" ->
              Returned(w, {}) /\ UNCHANGED <<restarts, eofs, restarted>>
         [] line = "F" -> ServerError(w)
         [] line = "A" ->
              /\ pc' = [pc EXCEPT ![w] = "payload"]
              /\ UNCHANGED <<item, results, queue, unfinished, joined, members_per_asset,
                             visited, prefixes_per_autun, answer, enqueued,
                             restarts, eofs, restarted, exc, taskA, taskB>>
         [] OTHER ->
              Returned(w, {}) /\ UNCHANGED <<restarts, eofs, restarted>>
  /\ UNCHANGED <<coord, error, filters, max_restarts, asked>>

\* query, lines 135-136: the payload line has arrived
Payload(w) ==
  /\ UNCHANGED non_crawl_vars
  /\ Running(w)
  /\ pc[w] = "payload"
  /\ \E tokens \in SUBSET (IF coord = "joinA" THEN RawTokens ELSE Prefixes) :
       results' = [results EXCEPT ![w] = tokens]
  /\ pc' = [pc EXCEPT ![w] = "close"]
  /\ UNCHANGED <<coord, error, queue, unfinished, joined, members_per_asset, visited,
                 prefixes_per_autun, filters, max_restarts, item, restarts, exc,
                 taskA, taskB, answer, enqueued, asked, eofs, restarted>>

\* query, lines 139-144: the closing line has arrived (whatever it is)
Close(w) ==
  /\ UNCHANGED non_crawl_vars
  /\ Running(w)
  /\ pc[w] = "close"
  /\ Returned(w, results[w])
  /\ UNCHANGED <<coord, error, filters, max_restarts, restarts, asked, eofs,
                 restarted>>

(***************************************************************************)
(* The coordinator: join_queue_or_workers and its two callers              *)
(***************************************************************************)
\* a coordinator that awaits queue.join() alone and does not watch the
\* worker tasks
NoFailedTasks(tasks) == {}

\* the worker tasks that are done when asyncio.wait returns
FailedTasks(tasks) == {w \in Workers : tasks[w] = "failed"}

\* a coordinator that goes on without waiting for the queue or a task
WaitReturnsAtOnce(tasks) == TRUE

\* asyncio.wait(tasks, return_when=FIRST_COMPLETED) can return
WaitReturns(tasks) == joined \/ FailedTasks(tasks) # {}

\* a coordinator that leaves the pending tasks alone
CancelNothing(tasks) == tasks

\* join_queue_or_workers, line 313: [t.cancel() for t in pending]
CancelPending(tasks) ==
  [w \in Workers |-> IF tasks[w] = "pending" THEN "cancelled" ELSE tasks[w]]

\* irrtree_process, lines 344-346 and 410-412: the handler reads
\* task.exception() of the task created last, then raises e
Handler(e, tasks) ==
  LET task == tasks[NumWorkers - 1]
  IN CASE task = "failed" -> e
       [] task = "cancelled" -> CancelledError
       [] OTHER -> InvalidStateError

\* join_queue_or_workers, lines 300-306, raises the exception of a done
\* worker task, and irrtree_process ends in its handler
Fails(tasks) ==
  /\ \E w \in FailedTasks(tasks) : error' = Handler(WorkerError(w, exc[w]), tasks)
  /\ coord' = "raised"

\* a coordinator that only resolves the AUT-NUMs of the root
AsnObjectsOfRoot(graph) ==
  {m \in UNION {graph[k] : k \in DOMAIN graph \cap {Root}} : ~HasHyphen(m)}

\* irrtree_process, lines 372-377: the AUT-NUMs to resolve
AsnObjects(graph) ==
  {m \in UNION {graph[k] : k \in DOMAIN graph} : ~HasHyphen(m)}

\* Phase A ends: lines 343-409 of irrtree_process, with search unset and
\* remove_recursivity off
CoordA ==
  /\ UNCHANGED non_crawl_vars
  /\ coord = "joinA"
  /\ WaitReturns(taskA)
  /\ IF FailedTasks(taskA) # {}
     THEN /\ Fails(taskA)
          /\ UNCHANGED <<queue, unfinished, joined, prefixes_per_autun, pc,
                         item, results, taskA, taskB, enqueued>>
     ELSE /\ taskA' = CancelPending(taskA)
          /\ \E ord \in Orders(AsnObjects(members_per_asset)) :
               queue' = queue \o ord
          /\ unfinished' = unfinished + Cardinality(AsnObjects(members_per_asset))
          \* the new queue.join() returns at once when nothing is unfinished
          /\ joined' = (unfinished' = 0)
          /\ enqueued' = [i \in AllIds |->
                            IF i \in AsnObjects(members_per_asset)
                            THEN enqueued[i] + 1 ELSE enqueued[i]]
          /\ prefixes_per_autun' = EmptyMap
          /\ taskB' = [w \in Workers |-> "pending"]
          /\ pc' = [w \in Workers |-> "get"]
          /\ item' = [w \in Workers |-> None]
          /\ results' = [w \in Workers |-> {}]
          /\ coord' = "joinB"
          /\ UNCHANGED error
  /\ UNCHANGED <<members_per_asset, visited, filters, max_restarts, restarts,
                 exc, answer, asked, eofs, restarted>>

\* Phase B ends: lines 409-420 of irrtree_process
CoordB ==
  /\ UNCHANGED non_crawl_vars
  /\ coord = "joinB"
  /\ WaitReturns(taskB)
  /\ IF FailedTasks(taskB) # {}
     THEN /\ Fails(taskB)
          /\ UNCHANGED <<pc, taskB>>
     ELSE /\ taskB' = CancelPending(taskB)
          /\ pc' = [w \in Workers |-> "dead"]
          /\ coord' = "post"
          /\ UNCHANGED error
  /\ UNCHANGED <<queue, unfinished, joined, members_per_asset, visited,
                 prefixes_per_autun, filters, max_restarts, item, results,
                 restarts, exc, taskA, answer, enqueued, asked, eofs, restarted>>

NextCrawl ==
  \/ \E w \in Workers : Get(w)
  \/ \E w \in Workers : Status(w)
  \/ \E w \in Workers : Payload(w)
  \/ \E w \in Workers : Close(w)
  \/ CoordA
  \/ CoordB

SpecCrawl == InitCrawl /\ [][NextCrawl]_vars

(***************************************************************************)
(* Phase B on its own: irrtree_process from line 372 on, for a Membership  *)
(* Graph that Phase A (and the transformations after it) left.             *)
(***************************************************************************)
\* the graphs Phase B is started with: two AUT-NUMs at two levels of a
\* cycle, one AUT-NUM, none
PhaseBGraphs ==
  {(ASR :> {ASA, AS1}) @@ (ASA :> {ASR, AS1, AS2}),
   (ASR :> {AS1}),
   (ASR :> {})}

\* irrtree_process, lines 372-406: the queue is seeded with the AUT-NUMs of
\* the graph and the workers, with what is left of their restart budgets,
\* are started on run_resolve_objects
InitPhaseB ==
  /\ ResolverIdle
  /\ SessionIdle
  /\ TransformIdle
  /\ LexerIdle
  /\ PrinterIdle
  /\ CompareIdle
  /\ coord = "joinB"
  /\ error = NoError
  /\ members_per_asset \in PhaseBGraphs
  /\ \E ord \in Orders(AsnObjects(members_per_asset)) : queue = ord
  /\ unfinished = Len(queue)
  /\ joined = (unfinished = 0)
  /\ visited = DOMAIN members_per_asset
  /\ prefixes_per_autun = EmptyMap
  /\ filters = {}
  /\ max_restarts \in 0 .. MaxRestartsBound
  /\ pc = [w \in Workers |-> "get"]
  /\ item = [w \in Workers |-> None]
  /\ results = [w \in Workers |-> {}]
  /\ restarts \in [Workers -> 0 .. max_restarts]
  /\ exc = [w \in Workers |-> "none"]
  /\ taskA = [w \in Workers |-> "cancelled"]
  /\ taskB = [w \in Workers |-> "pending"]
  /\ answer = members_per_asset
  /\ enqueued = [i \in AllIds |->
                   IF i \in DOMAIN members_per_asset \/ i \in Range(queue)
                   THEN 1 ELSE 0]
  /\ asked = [i \in AllIds |-> IF i \in DOMAIN members_per_asset THEN 1 ELSE 0]
  /\ eofs = [w \in Workers |-> max_restarts - restarts[w]]
  /\ restarted = eofs

NextPhaseB ==
  \/ \E w \in Workers : Get(w)
  \/ \E w \in Workers : Status(w)
  \/ \E w \in Workers : Payload(w)
  \/ \E w \in Workers : Close(w)
  \/ CoordB

SpecPhaseB == InitPhaseB /\ [][NextPhaseB]_vars

(***************************************************************************)
(* The origin resolver: get_origin_asns_from_members and get_origin_asns.  *)
(* The recursion is an explicit stack of calls; the ancestor path          *)
(* (`parents`) of a call is the list of the AS-SETs of the calls below it. *)
(* A set is iterated in any order.                                         *)
(***************************************************************************)
\* the graphs the resolver is run on
RAsSets == {ASR, ASA, ASB}
RAutNums == {AS1, AS2}
MemberSets == {S \in SUBSET (RAsSets \cup RAutNums) : Cardinality(S) <= MaxMembers}

\* a call of get_origin_asns that traverses as_set: its loop variables
Frame(as_set) ==
  [as_set |-> as_set, todo |-> as_sets_members[as_set], nr_origin_asns |-> {},
   recursive_parent |-> None, candidates |-> {}]

\* `parents` of the call at depth d
Parents(d) == [i \in 1 .. (d - 1) |-> rstack[i].as_set]

InSeq(x, seq) == \E i \in 1 .. Len(seq) : seq[i] = x

\* list.index
Index(x, seq) == CHOOSE i \in 1 .. Len(seq) : seq[i] = x /\ \A j \in 1 .. (i - 1) : seq[j] # x

\* a resolver that follows back-edges like any other member
MemberKindNoBackEdge(member, as_set, parents) ==
  IF member = as_set THEN "self"
  ELSE IF ~HasHyphen(member) THEN "autnum"
  ELSE "call"

\* get_origin_asns, lines 165-188: what the loop does with a member
MemberKind(member, as_set, parents) ==
  IF member = as_set THEN "self"
  ELSE IF InSeq(member, parents) THEN "parent"
  ELSE IF ~HasHyphen(member) THEN "autnum"
  ELSE "call"

\* a resolver that keeps the first recursive parent it met
HigherParentFirstWins(recursive_parent, candidate, parents) ==
  IF recursive_parent = None THEN candidate ELSE recursive_parent

\* get_origin_asns, lines 171-177 and 213-219: the recursive parent closest
\* to the root
HigherParent(recursive_parent, candidate, parents) ==
  IF recursive_parent = None THEN candidate
  ELSE IF Index(candidate, parents) < Index(recursive_parent, parents) THEN candidate
  ELSE recursive_parent

\* a resolver that drops what a member reports about its recursive parent
PropagateNothing(recursive_parent, this_member_recursive_parent, as_set, parents) ==
  recursive_parent

\* get_origin_asns, lines 204-219: the recursive parent after a member's
\* call has returned this_member_recursive_parent
Propagate(recursive_parent, this_member_recursive_parent, as_set, parents) ==
  IF this_member_recursive_parent = None THEN recursive_parent
  ELSE IF this_member_recursive_parent = as_set THEN recursive_parent
  ELSE HigherParent(recursive_parent, this_member_recursive_parent, parents)

\* dict without a key
Without(map, key) == [k \in (DOMAIN map) \ {key} |-> map[k]]

\* dict.setdefault(key, set()).add(x) for every x of xs
AddTo(map, key, xs) ==
  (key :> ((IF key \in DOMAIN map THEN map[key] ELSE {}) \cup xs)) @@ map

\* a resolver that leaves the bucket of a deferred AS-SET in the table
DeferKeepingBucket(table, as_set, recursive_parent) ==
  LET added == AddTo(table, recursive_parent, {as_set})
  IN IF as_set \in DOMAIN added
     THEN AddTo(added, recursive_parent, added[as_set])
     ELSE added

\* get_origin_asns, lines 230-238: as_set waits for recursive_parent
Defer(table, as_set, recursive_parent) ==
  LET added == AddTo(table, recursive_parent, {as_set})
  IN IF as_set \in DOMAIN added
     THEN Without(AddTo(added, recursive_parent, added[as_set]), as_set)
     ELSE added

\* a resolver that finalizes an AS-SET without the AS-SETs that wait for it
FinalizeSelfOnly(memo, table, as_set, nr_origin_asns) ==
  [k \in (DOMAIN memo) \cup {as_set} |->
     IF k = as_set THEN nr_origin_asns ELSE memo[k]]

\* get_origin_asns, lines 242-247: the closures finalized with as_set
Finalize(memo, table, as_set, nr_origin_asns) ==
  LET children == IF as_set \in DOMAIN table THEN table[as_set] ELSE {}
  IN [k \in (DOMAIN memo) \cup {as_set} \cup children |->
        IF k = as_set \/ k \in children THEN nr_origin_asns ELSE memo[k]]

\* a resolver that does not compare the keys of its result with the keys
\* of the graph
VerdictWithoutKeyCheck(rp, table, memo, graph) ==
  IF rp # None THEN "assert_rp"
  ELSE IF DOMAIN table # {} THEN "assert_recursive"
  ELSE "returned"

\* get_origin_asns_from_members, lines 276-284
Verdict(rp, table, memo, graph) ==
  IF rp # None THEN "assert_rp"
  ELSE IF DOMAIN table # {} THEN "assert_recursive"
  ELSE IF DOMAIN memo # DOMAIN graph THEN "assert_keys"
  ELSE "returned"

\* the crawl does not take part
CrawlIdle ==
  /\ coord = "post"
  /\ error = NoError
  /\ queue = <<>>
  /\ unfinished = 0
  /\ joined = TRUE
  /\ members_per_asset = EmptyMap
  /\ visited = {}
  /\ prefixes_per_autun = EmptyMap
  /\ filters = {}
  /\ max_restarts = 0
  /\ pc = [w \in Workers |-> "dead"]
  /\ item = [w \in Workers |-> None]
  /\ results = [w \in Workers |-> {}]
  /\ restarts = [w \in Workers |-> 0]
  /\ exc = [w \in Workers |-> "none"]
  /\ taskA = [w \in Workers |-> "cancelled"]
  /\ taskB = [w \in Workers |-> "cancelled"]
  /\ answer = EmptyMap
  /\ enqueued = [i \in AllIds |-> 0]
  /\ asked = [i \in AllIds |-> 0]
  /\ eofs = [w \in Workers |-> 0]
  /\ restarted = [w \in Workers |-> 0]

\* get_origin_asns_from_members, lines 263-272: the call for the root
InitResolve ==
  /\ CrawlIdle
  /\ SessionIdle
  /\ TransformIdle
  /\ LexerIdle
  /\ PrinterIdle
  /\ CompareIdle
  /\ as_sets_members \in [RAsSets -> MemberSets]
  /\ rstack = <<Frame(Root)>>
  /\ origin_ases_per_asset = EmptyMap
  /\ recursive_as_sets = EmptyMap
  /\ rstate = "run"
  /\ root_rp = None
  /\ calls = 1
  /\ number_prefixes_per_asset = EmptyMap
  /\ number_origin_asn_per_asset = EmptyMap
  /\ agg = "none"

\* one iteration of the loop of the innermost call, lines 164-194
Member ==
  /\ rstate = "run"
  /\ rstack # <<>>
  /\ LET d == Len(rstack)
         top == rstack[d]
     IN /\ top.todo # {}
        /\ \E member \in top.todo :
             LET kind == MemberKind(member, top.as_set, Parents(d))
                 rest == [top EXCEPT !.todo = @ \ {member}]
             IN CASE kind = "self" ->
                       /\ rstack' = [rstack EXCEPT ![d] = rest]
                       /\ UNCHANGED <<rstate, calls>>
                  [] kind = "parent" ->
                       /\ rstack' = [rstack EXCEPT ![d] =
                            [rest EXCEPT !.recursive_parent =
                               HigherParent(@, member, Parents(d)),
                                         !.candidates = @ \cup {member}]]
                       /\ UNCHANGED <<rstate, calls>>
                  [] kind = "autnum" ->
                       /\ rstack' = [rstack EXCEPT ![d] =
                            [rest EXCEPT !.nr_origin_asns = @ \cup {member}]]
                       /\ UNCHANGED <<rstate, calls>>
                  [] OTHER ->
                       IF member \in DOMAIN origin_ases_per_asset
                       THEN \* lines 153-154: answered from the memo
                            /\ rstack' = [rstack EXCEPT ![d] =
                                 [rest EXCEPT !.nr_origin_asns =
                                    @ \cup origin_ases_per_asset[member]]]
                            /\ UNCHANGED <<rstate, calls>>
                       ELSE IF member \notin DOMAIN as_sets_members
                       THEN \* line 164: KeyError
                            /\ rstate' = "KeyError"
                            /\ UNCHANGED <<rstack, calls>>
                       ELSE /\ rstack' = Append([rstack EXCEPT ![d] = rest], Frame(member))
                            /\ calls' = calls + 1
                            /\ UNCHANGED rstate
  /\ UNCHANGED <<as_sets_members, origin_ases_per_asset, recursive_as_sets, root_rp>>
  /\ UNCHANGED agg_vars
  /\ UNCHANGED non_resolver_vars

\* the innermost call has gone through its members: lines 227-250, and in
\* its caller lines 197-219 (or, for the root, the checks of
\* get_origin_asns_from_members)
Return ==
  /\ rstate = "run"
  /\ rstack # <<>>
  /\ LET d == Len(rstack)
         top == rstack[d]
         rp == top.recursive_parent
         table == IF rp # None
                  THEN Defer(recursive_as_sets, top.as_set, rp)
                  ELSE Without(recursive_as_sets, top.as_set)
         memo == IF rp # None
                 THEN origin_ases_per_asset
                 ELSE Finalize(origin_ases_per_asset, recursive_as_sets,
                               top.as_set, top.nr_origin_asns)
     IN /\ top.todo = {}
        /\ recursive_as_sets' = table
        /\ origin_ases_per_asset' = memo
        /\ IF d = 1
           THEN /\ rstack' = <<>>
                /\ root_rp' = rp
                /\ rstate' = Verdict(rp, table, memo, as_sets_members)
           ELSE LET caller == rstack[d - 1]
                    unknown == /\ rp # None
                               /\ rp # caller.as_set
                               /\ ~InSeq(rp, Parents(d - 1))
                IN /\ UNCHANGED root_rp
                   /\ IF unknown
                      THEN \* lines 209-212
                           /\ rstate' = "exception"
                           /\ UNCHANGED rstack
                      ELSE /\ rstack' = [SubSeq(rstack, 1, d - 1) EXCEPT ![d - 1] =
                                [caller EXCEPT
                                   !.nr_origin_asns = @ \cup top.nr_origin_asns,
                                   !.recursive_parent =
                                      Propagate(@, rp, caller.as_set, Parents(d - 1)),
                                   !.candidates =
                                      @ \cup ({rp} \ {None, caller.as_set})]]
                           /\ UNCHANGED rstate
  /\ UNCHANGED <<as_sets_members, calls>>
  /\ UNCHANGED agg_vars
  /\ UNCHANGED non_resolver_vars

\* sum of f over the set S
RECURSIVE SumOver(_, _)
SumOver(S, f) ==
  IF S = {} THEN 0
  ELSE LET x == CHOOSE y \in S : TRUE IN f[x] + SumOver(S \ {x}, f)

\* the prefix sets Phase B may have recorded for an AUT-NUM
PrefixSets == {{}, {<<"p">>}, {<<"p">>, <<"q">>}}

\* irrtree_process, lines 432-434: the AS-SETs of each distinct closure
AssetsPerOriginAsSet(origin) ==
  [c \in {origin[a] : a \in DOMAIN origin} |->
     {a \in DOMAIN origin : origin[a] = c}]

\* an aggregation that adds up the prefix counts of the AUT-NUMs
PrefixCountSummed(origin_as_set, prefixes) ==
  SumOver(origin_as_set,
          [asn \in origin_as_set |-> Cardinality(prefixes[asn])])

\* irrtree_process, lines 439-445: len(this_prefix_set)
PrefixCount(origin_as_set, prefixes) ==
  Cardinality(UNION {prefixes[asn] : asn \in origin_as_set})

\* irrtree_process, lines 440-442: "We did not preload prefixes"
NotPreloaded(origin, prefixes) ==
  \E a \in DOMAIN origin : \E asn \in origin[a] : asn \notin DOMAIN prefixes

\* irrtree_process, lines 438 and 444: the closure under which an AS-SET
\* is filed
FiledUnder(assets, a) == CHOOSE c \in DOMAIN assets : a \in assets[c]

\* irrtree_process, lines 436-445: the prefix count of every AS-SET of
\* every closure
NumberPrefixesPerAsset(origin, prefixes) ==
  LET assets == AssetsPerOriginAsSet(origin)
  IN [a \in UNION {assets[c] : c \in DOMAIN assets} |->
        PrefixCount(FiledUnder(assets, a), prefixes)]

\* irrtree_process, lines 437-446: the origin count of every AS-SET of
\* every closure
NumberOriginAsnPerAsset(origin) ==
  LET assets == AssetsPerOriginAsSet(origin)
  IN [a \in UNION {assets[c] : c \in DOMAIN assets} |->
        Cardinality(FiledUnder(assets, a))]

\* irrtree_process, lines 422-451, after get_origin_asns_from_members has
\* returned: the counts per AS-SET, for the prefix sets Phase B recorded
Aggregate ==
  /\ rstate = "returned"
  /\ agg = "none"
  /\ \E prefixes \in [AsnObjects(as_sets_members) -> PrefixSets] :
       /\ prefixes_per_autun' = prefixes
       /\ IF NotPreloaded(origin_ases_per_asset, prefixes)
          THEN /\ agg' = "exception"
               /\ UNCHANGED <<number_prefixes_per_asset, number_origin_asn_per_asset>>
          ELSE /\ agg' = "done"
               /\ number_prefixes_per_asset' =
                    NumberPrefixesPerAsset(origin_ases_per_asset, prefixes)
               /\ number_origin_asn_per_asset' =
                    NumberOriginAsnPerAsset(origin_ases_per_asset)
  /\ UNCHANGED <<as_sets_members, rstack, origin_ases_per_asset,
                 recursive_as_sets, rstate, root_rp, calls>>
  /\ UNCHANGED <<coord, error, queue, unfinished, joined, members_per_asset,
                 visited, filters, max_restarts, pc, item, results, restarts,
                 exc, taskA, taskB, answer, enqueued, asked, eofs, restarted>>
  /\ UNCHANGED <<session_vars, transform_vars, lexer_vars, printer_vars,
                 compare_vars>>

NextResolve == Member \/ Return \/ Aggregate

SpecResolve == InitResolve /\ [][NextResolve]_vars


(***************************************************************************)
(* Properties of the crawl                                                 *)
(***************************************************************************)
PhaseAFailed == \E w \in Workers : taskA[w] = "failed"
PhaseBFailed == \E w \in Workers : taskB[w] = "failed"
\* Phase A has ended by drain: the Phase B tasks exist
PhaseADrained == \A w \in Workers : taskB[w] # "none"

\* the worker holds a dequeued identifier whose processing is unfinished
Holding(w) == pc[w] \in {"status", "payload", "close"}

\* C1: once a worker task has raised in Phase A or Phase B, the queue is
\* never reported as drained (the failed item stays unfinished), the run
\* never gets past the phase to a result, and when irrtree_process has
\* ended it has ended with an error.
C1_WorkerFailureFailsRun ==
  /\ PhaseAFailed =>
       /\ coord \in {"joinA", "raised"}
       /\ ~PhaseADrained
       /\ ~joined /\ unfinished > 0
  /\ PhaseBFailed =>
       /\ coord \in {"joinB", "raised"}
       /\ ~joined /\ unfinished > 0
  /\ coord = "raised" =>
       /\ PhaseAFailed \/ PhaseBFailed
       /\ error # NoError
  /\ coord = "post" => error = NoError

\* a Phase B worker has failed after a graph of two AS-SETs was built, and
\* the run has ended with an error
C1_Witness ==
  /\ coord = "raised"
  /\ PhaseBFailed
  /\ Cardinality(DOMAIN members_per_asset) >= 2

\* the AS-SETs among the members that get_members returned for x and that
\* are not excluded
AsSetMembers(x) ==
  IF x \in DOMAIN answer
  THEN {m \in answer[x] : is_as_set(m) /\ m \notin filters}
  ELSE {}

GrowReach(S) == S \cup UNION {AsSetMembers(x) : x \in S}

RECURSIVE ReachFrom(_)
ReachFrom(S) == IF GrowReach(S) = S THEN S ELSE ReachFrom(GrowReach(S))

\* C2: when Phase A has ended by drain, the keys of the Membership Graph
\* are the root and the AS-SETs reachable from it through members that are
\* not excluded, each adjacency is what the query of the key returned minus
\* the exclusion set, every AS-SET member is a key and no AUT-NUM is a key.
C2_DrainedGraphIsReachableSet ==
  PhaseADrained =>
    /\ DOMAIN members_per_asset = ReachFrom({Root})
    /\ DOMAIN answer = DOMAIN members_per_asset
    /\ \A k \in DOMAIN members_per_asset :
         /\ members_per_asset[k] = answer[k] \ filters
         /\ is_as_set(k)
         /\ \A m \in members_per_asset[k] :
              is_as_set(m) => m \in DOMAIN members_per_asset

\* a drained crawl of a cyclic registry in which an excluded AS-SET was
\* returned as a member
C2_Witness ==
  /\ PhaseADrained
  /\ filters = {ASB, ASR}
  /\ DOMAIN members_per_asset = {ASR, ASA}
  /\ answer[ASR] = {ASA, ASB, AS1}
  /\ answer[ASA] = {ASR, ASB}

\* C3: in Phase A every AS-SET is enqueued at most once and get_members is
\* called for it at most once; once its adjacency is recorded no worker
\* holds it, no two workers hold the same identifier, and at drain the
\* query of every visited identifier has been made exactly once.
C3_OneQueryPerIdentifier ==
  /\ \A i \in {x \in AllIds : is_as_set(x)} :
       /\ enqueued[i] <= 1
       /\ asked[i] <= 1
       /\ i \in DOMAIN members_per_asset =>
            /\ asked[i] = 1
            /\ coord = "joinA" => \A w \in Workers : item[w] # i
  /\ coord = "joinA" =>
       \A v, w \in Workers : (v # w /\ Holding(v) /\ Holding(w)) => item[v] # item[w]
  /\ PhaseADrained => \A i \in visited : asked[i] = 1 /\ enqueued[i] = 1

\* two workers are querying two AS-SETs at once, each a member of the other
\* one's parent and of the root
C3_Witness ==
  /\ coord = "joinA"
  /\ \E v, w \in Workers :
       /\ v # w /\ Holding(v) /\ Holding(w)
       /\ item[v] = ASA /\ item[w] = ASB
  /\ ASR \in DOMAIN answer
  /\ answer[ASR] = {ASA, ASB, ASR}

\* C7 (as claimed): when the run has ended with a worker's failure, no
\* other worker task of the phase is still running (they were cancelled).
C7_FailureCancelsOthers ==
  coord = "raised" =>
    /\ PhaseAFailed => \A w \in Workers : taskA[w] # "pending"
    /\ PhaseBFailed => \A w \in Workers : taskB[w] # "pending"

\* C8 (as claimed): when the run has ended with a worker's failure, the
\* error of irrtree_process is the exception of a worker task that failed.
C8_ErrorIsWorkersOwn ==
  coord = "raised" =>
    /\ error.kind = "worker"
    /\ error.worker \in Workers
    /\ exc[error.worker] = error.exc
    /\ (taskA[error.worker] = "failed" \/ taskB[error.worker] = "failed")

\* C9: whenever the Phase A queue.join() has completed, so that drain can
\* be reported, the queue is empty, no worker holds an identifier, and all
\* visited identifiers have a recorded adjacency.
C9_DrainOnlyWhenAllDone ==
  (coord = "joinA" /\ joined) =>
    /\ queue = <<>>
    /\ unfinished = 0
    /\ \A w \in Workers : ~Holding(w) /\ item[w] = None
    /\ visited = DOMAIN members_per_asset

\* drain is reportable after members were enqueued by the workers
C9_Witness ==
  /\ coord = "joinA" /\ joined
  /\ visited = {ASR, ASA, ASB}
  /\ ASB \in answer[ASA]

Min(a, b) == IF a < b THEN a ELSE b

\* C10: a session performs at most max_restarts restarts over its whole
\* life: the counter is max_restarts minus the end-of-streams read so far
\* (never increased or reset, also from Phase A to Phase B), every
\* end-of-stream within the budget was followed by a restart, and the one
\* after the budget has ended the worker's task with an error.
C10_RestartBudget ==
  \A w \in Workers :
    /\ restarted[w] <= max_restarts
    /\ restarts[w] = max_restarts - eofs[w]
    /\ restarted[w] = Min(eofs[w], max_restarts)
    /\ restarts[w] >= -1
    /\ restarts[w] = -1 => pc[w] = "dead" /\ exc[w] = "restarts_exhausted"
    /\ exc[w] = "restarts_exhausted" => restarts[w] = -1

\* a session that restarted in Phase A fails in Phase B on its next
\* end-of-stream
C10_Witness ==
  /\ max_restarts = 1
  /\ \E w \in Workers :
       /\ taskB[w] = "failed"
       /\ exc[w] = "restarts_exhausted"
       /\ restarted[w] = 1
       /\ \E i \in DOMAIN members_per_asset : TRUE

(***************************************************************************)
(* Properties of the origin resolver                                       *)
(***************************************************************************)
\* every AS-SET member is a key of the graph
WellFormed ==
  \A k \in DOMAIN as_sets_members :
    \A m \in as_sets_members[k] : is_as_set(m) => m \in DOMAIN as_sets_members

\* get_origin_asns has returned for the root
RootReturned ==
  rstate \in {"returned", "assert_rp", "assert_recursive", "assert_keys"}

AsSetsIn(x) ==
  IF x \in DOMAIN as_sets_members
  THEN {m \in as_sets_members[x] : is_as_set(m)}
  ELSE {}

GrowSets(S) == S \cup UNION {AsSetsIn(x) : x \in S}

RECURSIVE SetsReachableFrom(_)
SetsReachableFrom(S) ==
  IF GrowSets(S) = S THEN S ELSE SetsReachableFrom(GrowSets(S))

\* the AUT-NUMs reachable from s along membership edges
AutNumsReachableFrom(s) ==
  {m \in UNION {as_sets_members[x] : x \in SetsReachableFrom({s}) \cap DOMAIN as_sets_members} :
     ~is_as_set(m)}

\* C4: on a graph in which every AS-SET member is a key, once the root is
\* resolved every AS-SET reachable from the root has a finalized closure,
\* and it is the set of AUT-NUMs reachable from that AS-SET; AS-SETs on a
\* common cycle have equal closures.
C4_ClosureIsReachableAutNums ==
  (WellFormed /\ RootReturned) =>
    /\ \A x \in SetsReachableFrom({Root}) :
         /\ x \in DOMAIN origin_ases_per_asset
         /\ origin_ases_per_asset[x] = AutNumsReachableFrom(x)
    /\ \A x, y \in SetsReachableFrom({Root}) :
         (x \in SetsReachableFrom({y}) /\ y \in SetsReachableFrom({x})) =>
           origin_ases_per_asset[x] = origin_ases_per_asset[y]

\* resolved: a self-reference, a cycle between two AS-SETs and a cycle
\* through the root around it, with AUT-NUMs at two levels
C4_Witness ==
  /\ rstate = "returned"
  /\ as_sets_members[ASR] = {ASA, AS2}
  /\ as_sets_members[ASA] = {ASA, ASB}
  /\ as_sets_members[ASB] = {ASA, ASR, AS1}
  /\ origin_ases_per_asset[ASB] = {AS1, AS2}

\* number of paths without repetition that start with `path` and go on
\* through x
RECURSIVE SimplePaths(_, _)
SimplePaths(x, path) ==
  LET next == AsSetsIn(x) \ (path \cup {x})
  IN 1 + SumOver(next, [m \in next |-> SimplePaths(m, path \cup {x})])

\* C5: on a graph in which every AS-SET member is a key, no AS-SET occurs
\* twice among the active calls, so the depth is at most the number of
\* AS-SETs; the number of calls is at most the number of paths without
\* repetition from the root, and resolution goes on until the root returns.
C5_ResolverTerminates ==
  WellFormed =>
    /\ \A i, j \in 1 .. Len(rstack) : i # j => rstack[i].as_set # rstack[j].as_set
    /\ Len(rstack) <= Cardinality(DOMAIN as_sets_members)
    /\ calls <= SimplePaths(Root, {})
    /\ rstate \in {"run"} \cup {"returned", "assert_rp", "assert_recursive", "assert_keys"}
    /\ rstate = "run" => rstack # <<>>

\* three nested calls, the innermost on an AS-SET that was left unresolved
\* by an earlier call
C5_Witness ==
  /\ rstate = "run"
  /\ Len(rstack) = 3
  /\ calls = 5
  /\ rstack[3].recursive_parent = ASR

\* C6: on a graph in which every AS-SET member is a key, when the root has
\* returned the Deferred-Resolution Table is empty and the recursive parent
\* of the root is none, so neither of the two assertions fails.
C6_TableEmptyAtRoot ==
  (WellFormed /\ RootReturned) =>
    /\ DOMAIN recursive_as_sets = {}
    /\ root_rp = None
    /\ rstate \notin {"assert_rp", "assert_recursive"}

\* resolved: AS-B waited for AS-A, and both were moved to wait for the root
C6_Witness ==
  /\ rstate = "returned"
  /\ as_sets_members[ASR] = {ASA}
  /\ as_sets_members[ASA] = {ASB, ASR}
  /\ as_sets_members[ASB] = {ASA, AS1}
  /\ origin_ases_per_asset[ASB] = {AS1}
  /\ DOMAIN recursive_as_sets = {}

(***************************************************************************)
(* One call of Worker.get_members or Worker.query, followed line by line:  *)
(* send_and_receive and its restarts, the status line, the payload line    *)
(* and the closing line.                                                   *)
(***************************************************************************)
\* what the session leaves alone
non_session_vars == <<crawl_vars, resolver_vars, transform_vars, lexer_vars, printer_vars, compare_vars>>

\* reader.readline() delivers an end-of-stream or a line of text
Eof == [eof |-> TRUE, text |-> <<>>]
Line(text) == [eof |-> FALSE, text |-> text]

\* Worker.receive, lines 86-87: line.decode()[:-1]; an end-of-stream and a
\* line that holds nothing both decode to the empty string
receive(line) == IF line.eof THEN <<>> ELSE line.text

\* the first lines a server may send
SessionStatusLines ==
  {Eof, Line(<<>>), Line(<<"D">>), Line(<<"F">>), Line(<<"F", "n", "o">>),
   Line(<<"A", "9">>), Line(<<"C">>), Line(<<"D", "x">>)}

\* the words of a payload line
SessionWords == {ASA, asb, AS1, MNT}

\* the payload lines a server may send: up to two words
SessionPayloadLines ==
  {Eof} \cup {Line(t) : t \in UNION {[1 .. n -> SessionWords] : n \in 0 .. 2}}

\* the closing lines a server may send
SessionCloseLines == {Eof, Line(<<"C">>), Line(<<"F">>)}

\* the calls followed: get_members on an AS-SET, get_members on something
\* else, and a prefix query
SessionCalls == {<<"i", ASR>>, <<"i", AS1>>, <<"g", AS1>>}

\* str.split(), as a set
split(text) == {text[i] : i \in 1 .. Len(text)}

\* a session that only takes a line that is exactly "F" for an error
StatusKindExactF(first_line) ==
  IF first_line = <<"D">> THEN "D"
  ELSE IF first_line = <<"F">> THEN "F"
  ELSE IF first_line[1] = "A" THEN "A"
  ELSE "other"

\* query, lines 125-145: the branch taken for a status line
StatusKind(first_line) ==
  IF first_line = <<"D">> THEN "D"
  ELSE IF first_line[1] = "F" THEN "F"
  ELSE IF first_line[1] = "A" THEN "A"
  ELSE "other"

\* query, lines 130-132: the message quotes the whole status line
QueryError(first_line) == [kind |-> "query_error", answer |-> first_line]
SessionError(kind) == [kind |-> kind, answer |-> <<>>]

\* what a server may answer during the handshake
HandshakeLines == {Eof, Line(<<"C">>), Line(<<"F", "n", "o">>)}

\* what happens on a connection
Opened(conn) == [conn |-> conn, op |-> "open", text |-> <<>>]
Closed(conn) == [conn |-> conn, op |-> "close", text |-> <<>>]
Sent(conn, text) == [conn |-> conn, op |-> "send", text |-> text]
Received(conn, text) == [conn |-> conn, op |-> "recv", text |-> text]

\* query, line 121: the command of the call (recurse is off)
Query == <<"!", s_cmd>> \o s_as_set

\* an initialize that does not set the timeout
HelloWithoutTimeout(conn) ==
  <<Opened(conn), Sent(conn, <<"!!">>)>>

\* initialize, lines 46-51: the new connection, up to the read of the
\* answer to the timeout
Hello(conn) ==
  <<Opened(conn), Sent(conn, <<"!!">>), Sent(conn, <<"!t1000">>)>>

InitSession ==
  /\ CrawlIdle
  /\ ResolverIdle
  /\ TransformIdle
  /\ LexerIdle
  /\ PrinterIdle
  /\ CompareIdle
  /\ s_pc = "call"
  /\ \E c \in SessionCalls : s_cmd = c[1] /\ s_as_set = c[2]
  /\ s_restarts \in 0 .. MaxRestartsBound
  /\ s_results = {}
  /\ s_out = {}
  /\ s_exc = NoExc
  /\ s_reads = <<>>
  /\ s_sent = 0
  /\ s_sources \in BOOLEAN
  /\ s_conn = 1
  /\ s_wire = <<>>

\* the call ends with an exception
SessionRaise(e) ==
  /\ s_pc' = "raised"
  /\ s_exc' = e
  /\ UNCHANGED s_out

\* query returns `res`; get_members validates it (lines 156-168)
SessionReturn(res) ==
  /\ s_pc' = "returned"
  /\ s_out' = IF s_cmd = "i" THEN ValidMembers(res) ELSE res
  /\ UNCHANGED s_exc

\* get_members, lines 150-155, and query, lines 121-124, up to the first
\* send of the command
SessionCall ==
  /\ s_pc = "call"
  /\ IF s_cmd = "i" /\ ~is_as_set(s_as_set)
     THEN SessionRaise(SessionError("not_an_as_set")) /\ UNCHANGED <<s_sent, s_wire>>
     ELSE /\ s_pc' = "status"
          /\ s_sent' = 1
          /\ s_wire' = Append(s_wire, Sent(s_conn, Query))
          /\ UNCHANGED <<s_out, s_exc>>
  /\ UNCHANGED <<s_cmd, s_as_set, s_restarts, s_results, s_reads, s_sources,
                 s_conn>>
  /\ UNCHANGED non_session_vars

\* send_and_receive, lines 96-109, and query, lines 125-147: the first line
\* of the answer is read
SessionStatus ==
  /\ s_pc = "status"
  /\ \E line \in SessionStatusLines :
       LET response == receive(line)
           read == Append(s_wire, Received(s_conn, response))
       IN /\ s_reads' = Append(s_reads, [at |-> "status", line |-> line])
          /\ IF response = <<>>
             THEN /\ s_restarts' = s_restarts - 1
                  /\ UNCHANGED s_sent
                  /\ IF s_restarts' < 0
                     THEN /\ SessionRaise(SessionError("restarts_exhausted"))
                          /\ s_wire' = read
                          /\ UNCHANGED s_conn
                     ELSE \* restart, lines 77-78, and initialize up to its
                          \* first read; open_connection may fail
                          \E ok \in BOOLEAN :
                            IF ok
                            THEN /\ s_pc' = "timeout"
                                 /\ s_conn' = s_conn + 1
                                 /\ s_wire' = Append(read, Closed(s_conn))
                                                 \o Hello(s_conn + 1)
                                 /\ UNCHANGED <<s_out, s_exc>>
                            ELSE /\ SessionRaise(SessionError("restart_failed"))
                                 /\ s_wire' = Append(read, Closed(s_conn))
                                 /\ UNCHANGED s_conn
             ELSE /\ UNCHANGED <<s_restarts, s_sent, s_conn>>
                  /\ s_wire' = read
                  /\ CASE StatusKind(response) = "D" -> SessionReturn({})
                       [] StatusKind(response) = "F" ->
                            SessionRaise(QueryError(response))
                       [] StatusKind(response) = "A" ->
                            s_pc' = "payload" /\ UNCHANGED <<s_out, s_exc>>
                       [] OTHER -> SessionReturn({})
  /\ UNCHANGED <<s_cmd, s_as_set, s_results, s_sources>>
  /\ UNCHANGED non_session_vars

\* send_and_receive, line 96, after a restart: the command is sent again
Resend ==
  /\ s_pc' = "status"
  /\ s_sent' = s_sent + 1
  /\ UNCHANGED <<s_out, s_exc>>

\* initialize, lines 52-54: the answer to the timeout is read and ignored
SessionTimeout ==
  /\ s_pc = "timeout"
  /\ \E line \in HandshakeLines :
       LET read == Append(s_wire, Received(s_conn, receive(line)))
       IN IF s_sources
          THEN /\ s_pc' = "sources"
               /\ s_wire' = Append(read, Sent(s_conn, <<"!s">>))
               /\ UNCHANGED <<s_sent, s_out, s_exc>>
          ELSE /\ Resend
               /\ s_wire' = Append(read, Sent(s_conn, Query))
  /\ UNCHANGED <<s_cmd, s_as_set, s_restarts, s_results, s_reads, s_sources,
                 s_conn>>
  /\ UNCHANGED non_session_vars

\* initialize, lines 55-60: the answer to the list of sources is read
SessionSources ==
  /\ s_pc = "sources"
  /\ \E line \in HandshakeLines :
       LET read == Append(s_wire, Received(s_conn, receive(line)))
       IN IF receive(line) = <<"C">>
          THEN /\ Resend
               /\ s_wire' = Append(read, Sent(s_conn, Query))
          ELSE /\ SessionRaise(SessionError("restart_failed"))
               /\ s_wire' = read
               /\ UNCHANGED s_sent
  /\ UNCHANGED <<s_cmd, s_as_set, s_restarts, s_results, s_reads, s_sources,
                 s_conn>>
  /\ UNCHANGED non_session_vars

\* query, lines 135-136: the payload line is read
SessionPayload ==
  /\ s_pc = "payload"
  /\ \E line \in SessionPayloadLines :
       /\ s_reads' = Append(s_reads, [at |-> "payload", line |-> line])
       /\ s_results' = split(receive(line))
       /\ s_wire' = Append(s_wire, Received(s_conn, receive(line)))
  /\ s_pc' = "close"
  /\ UNCHANGED <<s_cmd, s_as_set, s_restarts, s_out, s_exc, s_sent, s_sources,
                 s_conn>>
  /\ UNCHANGED non_session_vars

\* query, lines 139-144: the closing line is read
SessionClose ==
  /\ s_pc = "close"
  /\ \E line \in SessionCloseLines :
       /\ s_reads' = Append(s_reads, [at |-> "close", line |-> line])
       /\ s_wire' = Append(s_wire, Received(s_conn, receive(line)))
  /\ SessionReturn(s_results)
  /\ UNCHANGED <<s_cmd, s_as_set, s_restarts, s_results, s_sent, s_sources,
                 s_conn>>
  /\ UNCHANGED non_session_vars

NextSession ==
  \/ SessionCall
  \/ SessionStatus
  \/ SessionTimeout
  \/ SessionSources
  \/ SessionPayload
  \/ SessionClose

SpecSession == InitSession /\ [][NextSession]_vars

(***************************************************************************)
(* Properties of the session                                               *)
(***************************************************************************)
\* the reads of the call that came back empty
EmptyReads == {i \in 1 .. Len(s_reads) : receive(s_reads[i].line) = <<>>}

\* C11: a call never returns a result after a read that yielded
\* end-of-stream (an empty line) on the payload line or on the closing
\* line; such a read is followed by a restart or by a failure.
C11_NoResultAfterEndOfStream ==
  s_pc = "returned" =>
    \A i \in EmptyReads : s_reads[i].at = "status"

PayloadWords ==
  UNION {split(receive(s_reads[i].line)) :
           i \in {j \in 1 .. Len(s_reads) : s_reads[j].at = "payload"}}

\* C13: get_members returns the upper-cased forms of exactly the returned
\* tokens that match the AUT-NUM or the AS-SET pattern; a token that
\* matches neither is left out and the call does not fail on it.
C13_MembersValidated ==
  (s_cmd = "i" /\ \E i \in 1 .. Len(s_reads) : s_reads[i].at = "payload") =>
    /\ s_exc = NoExc
    /\ s_pc \in {"close", "returned"}
    /\ s_pc = "returned" =>
         /\ \A t \in PayloadWords :
              (re_asn(t) \/ re_as_set(t)) => Upper(t) \in s_out
         /\ \A x \in s_out :
              \E t \in PayloadWords : (re_asn(t) \/ re_as_set(t)) /\ x = Upper(t)

\* an answer with a lower-case AS-SET and an object that is no member
C13_Witness ==
  /\ s_cmd = "i"
  /\ s_pc = "returned"
  /\ PayloadWords = {asb, MNT}
  /\ s_out = {ASB}

(***************************************************************************)
(* The graph transformations: remove_recursivity_from_tree, filter_autnum  *)
(* and filter_from_graph.  Each is a function of its arguments; the dicts  *)
(* and sets the Python code updates in place are threaded through the      *)
(* recursion as a record.                                                  *)
(***************************************************************************)
\* what a transformation leaves alone
non_transform_vars == <<crawl_vars, resolver_vars, session_vars, lexer_vars, printer_vars, compare_vars>>

\* ord() of the characters that occur in identifiers
CharCode(c) ==
  CASE c = "-" -> 45
    [] c = "1" -> 49
    [] c = "2" -> 50
    [] c = "A" -> 65
    [] c = "B" -> 66
    [] c = "R" -> 82
    [] c = "S" -> 83
    [] c = "a" -> 97
    [] c = "b" -> 98
    [] c = "r" -> 114
    [] c = "s" -> 115
    [] OTHER -> 127

\* x < y for Python strings
RECURSIVE StrLess(_, _)
StrLess(x, y) ==
  IF x = <<>> THEN y # <<>>
  ELSE IF y = <<>> THEN FALSE
  ELSE IF x[1] = y[1] THEN StrLess(Tail(x), Tail(y))
  ELSE CharCode(x[1]) < CharCode(y[1])

\* sorted(S)
RECURSIVE sorted(_)
sorted(S) ==
  IF S = {} THEN <<>>
  ELSE LET least == CHOOSE x \in S : \A y \in S \ {x} : StrLess(x, y)
       IN <<least>> \o sorted(S \ {least})

\* the edges of a graph, as (parent, member) pairs
Edges(graph) == UNION {{<<k, m>> : m \in graph[k]} : k \in DOMAIN graph}

\* a removal that records the link the wrong way round
RecordLinkReversed(removed_links, asset, member) ==
  removed_links \cup {<<member, asset>>}

\* _remove_recursivity, line 32: removed_links.add((asset, member))
RecordLink(removed_links, asset, member) ==
  removed_links \cup {<<asset, member>>}

RECURSIVE remove_recursivity(_, _, _)
RECURSIVE remove_recursivity_loop(_, _, _, _)

\* _remove_recursivity, lines 28-35: the loop over the members of `asset`
\* as they were sorted when the call began; st holds members_per_asset,
\* removed_links and the exception raised, if any
remove_recursivity_loop(asset, todo, parents, st) ==
  IF st.exc # "none" \/ todo = <<>> THEN st
  ELSE LET member == Head(todo)
       IN IF ~HasHyphen(member)
          THEN remove_recursivity_loop(asset, Tail(todo), parents, st)
          ELSE IF member \in parents
          THEN IF member \notin st.members_per_asset[asset]
               THEN \* set.remove of an element that is gone
                    [st EXCEPT !.exc = "KeyError",
                               !.removed_links = RecordLink(@, asset, member)]
               ELSE remove_recursivity_loop(asset, Tail(todo), parents,
                      [st EXCEPT
                         !.removed_links = RecordLink(@, asset, member),
                         !.members_per_asset[asset] = @ \ {member}])
          ELSE remove_recursivity_loop(asset, Tail(todo), parents,
                 remove_recursivity(member, parents \cup {asset}, st))

\* _remove_recursivity, lines 20-35
remove_recursivity(asset, parents, st) ==
  IF asset \notin DOMAIN st.members_per_asset
  THEN [st EXCEPT !.exc = "KeyError"]
  ELSE remove_recursivity_loop(asset, sorted(st.members_per_asset[asset]),
                               parents, st)

\* all members of all AS-SETs of a graph
AllMembers(graph) == UNION {graph[k] : k \in DOMAIN graph}

\* remove_recursivity_from_tree, lines 46-59, with its two assertions
remove_recursivity_from_tree(root_asset, graph) ==
  LET st == remove_recursivity(root_asset, {},
              [members_per_asset |-> graph, removed_links |-> {}, exc |-> "none"])
  IN IF st.exc # "none" THEN st
     ELSE IF DOMAIN st.members_per_asset # DOMAIN graph
     THEN [st EXCEPT !.exc = "AssertionError"]
     ELSE IF AllMembers(graph) # AllMembers(st.members_per_asset) \cup {root_asset}
     THEN [st EXCEPT !.exc = "AssertionError"]
     ELSE st

InitTransform ==
  /\ CrawlIdle
  /\ ResolverIdle
  /\ SessionIdle
  /\ LexerIdle
  /\ PrinterIdle
  /\ CompareIdle
  /\ t_pc = "input"
  /\ t_graph \in [RAsSets -> MemberSets]
  /\ t_arg = {}
  /\ t_new = EmptyMap
  /\ t_removed = {}
  /\ t_exc = "none"
  /\ t_objects = t_graph
  /\ t_new_ids = EmptyMap

\* The set objects.  The member set that the given mapping holds under key
\* k is the object <<"in", k>>; a set the function creates for key k is
\* <<"new", k>>.
InputIds(graph) == [k \in DOMAIN graph |-> <<"in", k>>]

\* a copy of the dict that holds the same set objects (copy.copy)
ShallowCopyIds(graph) == [k \in DOMAIN graph |-> <<"in", k>>]

\* copy.deepcopy(members_per_asset), line 46: every member set is a new
\* object
DeepCopyIds(graph) == [k \in DOMAIN graph |-> <<"new", k>>]

\* set(), lines 76 and 103 of _filter_autnum and line 78 of
\* _filter_from_graph: the member sets of the returned dict are new objects
FreshIds(new_graph) == [k \in DOMAIN new_graph |-> <<"new", k>>]

\* the member sets of the given mapping after a function has updated, in
\* place, the sets its working dict `ids` holds to `contents`
ObjectsAfter(graph, ids, contents) ==
  [k \in DOMAIN graph |->
     IF \E w \in DOMAIN ids : ids[w] = <<"in", k>>
     THEN contents[CHOOSE w \in DOMAIN ids : ids[w] = <<"in", k>>]
     ELSE graph[k]]

\* remove_recursivity_from_tree(Root, t_graph)
RemoveRecursivity ==
  /\ t_pc = "input"
  /\ LET st == remove_recursivity_from_tree(Root, t_graph)
         ids == DeepCopyIds(t_graph)
     IN /\ t_exc' = st.exc
        /\ t_new' = IF st.exc = "none" THEN st.members_per_asset ELSE EmptyMap
        /\ t_removed' = IF st.exc = "none" THEN st.removed_links ELSE {}
        /\ t_objects' = ObjectsAfter(t_graph, ids, st.members_per_asset)
        /\ t_new_ids' = IF st.exc = "none" THEN ids ELSE EmptyMap
  /\ t_pc' = "remove_recursivity_from_tree"
  /\ UNCHANGED <<t_graph, t_arg>>
  /\ UNCHANGED non_transform_vars

\* a filter that records every AS-SET it went through
KeepAlways(new_members_per_asset, as_set, new_members) ==
  (as_set :> new_members) @@ new_members_per_asset

\* _filter_autnum, lines 102-103: an AS-SET is recorded if it kept a member
KeepIfAny(new_members_per_asset, as_set, new_members) ==
  IF new_members # {}
  THEN (as_set :> new_members) @@ new_members_per_asset
  ELSE new_members_per_asset

RECURSIVE filter_autnum_rec(_, _, _, _, _)
RECURSIVE filter_autnum_loop(_, _, _, _, _, _, _)

\* _filter_autnum, lines 79-101: the loop over the sorted members; st holds
\* new_members_per_asset and visited_assets
filter_autnum_loop(as_set, todo, allowed_autnum, original, parents, new_members, st) ==
  IF todo = <<>> THEN [st |-> st, new_members |-> new_members]
  ELSE LET member == Head(todo)
       IN IF member \in parents
          THEN filter_autnum_loop(as_set, Tail(todo), allowed_autnum, original,
                                  parents, new_members, st)
          ELSE IF ~HasHyphen(member)
          THEN filter_autnum_loop(as_set, Tail(todo), allowed_autnum, original,
                 parents,
                 IF member \in allowed_autnum
                 THEN new_members \cup {member} ELSE new_members,
                 st)
          ELSE LET st2 == IF member \notin st.visited_assets
                          THEN filter_autnum_rec(member, allowed_autnum, original,
                                                 parents \cup {as_set}, st)
                          ELSE st
               IN filter_autnum_loop(as_set, Tail(todo), allowed_autnum, original,
                    parents,
                    IF member \in DOMAIN st2.new_members_per_asset
                    THEN new_members \cup {member} ELSE new_members,
                    st2)

\* _filter_autnum, lines 62-103
filter_autnum_rec(as_set, allowed_autnum, original, parents, st) ==
  IF as_set \in st.visited_assets THEN st
  ELSE IF as_set \in DOMAIN st.new_members_per_asset THEN st
  ELSE LET r == filter_autnum_loop(as_set, sorted(original[as_set]),
                  allowed_autnum, original, parents, {},
                  [st EXCEPT !.visited_assets = @ \cup {as_set}])
       IN [r.st EXCEPT !.new_members_per_asset =
             KeepIfAny(@, as_set, r.new_members)]

\* filter_autnum, lines 106-120
filter_autnum(root_asset, allowed_autnum, original) ==
  filter_autnum_rec(root_asset, allowed_autnum, original, {},
    [new_members_per_asset |-> EmptyMap, visited_assets |-> {}]).new_members_per_asset

\* a filter that passes over what it has seen, excluded or not
SkipsSeenOnly(asset, seen, filtered) == asset \in seen

\* _filter_from_graph, line 75
Skips(asset, seen, filtered) == asset \in seen \/ asset \in filtered

\* the members of an AS-SET in one of the orders a set can be iterated in
RECURSIVE Reverse(_)
Reverse(q) == IF q = <<>> THEN <<>> ELSE Append(Reverse(Tail(q)), Head(q))
Iterate(S, backwards) == IF backwards THEN Reverse(sorted(S)) ELSE sorted(S)

RECURSIVE filter_from_graph_rec(_, _, _, _, _)
RECURSIVE filter_from_graph_loop(_, _, _, _, _, _)

\* _filter_from_graph, lines 79-87; st holds new_members and seen
filter_from_graph_loop(asset, todo, base_members, filtered, backwards, st) ==
  IF todo = <<>> THEN st
  ELSE LET member == Head(todo)
           added == [st EXCEPT !.new_members[asset] = @ \cup {member}]
       IN IF member \in filtered
          THEN filter_from_graph_loop(asset, Tail(todo), base_members, filtered,
                                      backwards, st)
          ELSE IF ~HasHyphen(member)
          THEN filter_from_graph_loop(asset, Tail(todo), base_members, filtered,
                                      backwards, added)
          ELSE filter_from_graph_loop(asset, Tail(todo), base_members, filtered,
                 backwards,
                 filter_from_graph_rec(member, base_members, filtered, backwards, added))

\* _filter_from_graph, lines 68-87
filter_from_graph_rec(asset, base_members, filtered, backwards, st) ==
  IF Skips(asset, st.seen, filtered) THEN st
  ELSE filter_from_graph_loop(asset, Iterate(base_members[asset], backwards),
         base_members, filtered, backwards,
         [seen |-> st.seen \cup {asset},
          new_members |-> (asset :> {}) @@ st.new_members])

\* filter_from_graph, lines 90-100
filter_from_graph(root_asset, base_members, filtered, backwards) ==
  filter_from_graph_rec(root_asset, base_members, filtered, backwards,
    [seen |-> {}, new_members |-> EmptyMap]).new_members

\* the sets of allowed AUT-NUMs tried
AllowedChoices == {{}, {AS1}, {AS1, AS2}}
\* the exclusion sets tried
ExcludedChoices == {{}, {ASB}, {ASR}, {ASA, AS1}}

\* filter_autnum(Root, allowed, t_graph)
FilterAutnum ==
  /\ t_pc = "input"
  /\ \E allowed \in AllowedChoices :
       /\ t_arg' = allowed
       /\ t_new' = filter_autnum(Root, allowed, t_graph)
       /\ t_new_ids' = FreshIds(t_new')
  /\ t_pc' = "filter_autnum"
  \* the given mapping is only read (lines 79 and 99)
  /\ UNCHANGED <<t_graph, t_removed, t_exc, t_objects>>
  /\ UNCHANGED non_transform_vars

\* filter_from_graph(Root, t_graph, filtered)
FilterFromGraph ==
  /\ t_pc = "input"
  /\ \E filtered \in ExcludedChoices, backwards \in BOOLEAN :
       /\ t_arg' = filtered
       /\ t_new' = filter_from_graph(Root, t_graph, filtered, backwards)
       /\ t_new_ids' = FreshIds(t_new')
  /\ t_pc' = "filter_from_graph"
  \* base_members is only read (line 79)
  /\ UNCHANGED <<t_graph, t_removed, t_exc, t_objects>>
  /\ UNCHANGED non_transform_vars

NextTransform == RemoveRecursivity \/ FilterAutnum \/ FilterFromGraph

SpecTransform == InitTransform /\ [][NextTransform]_vars

(***************************************************************************)
(* Properties of the graph transformations                                 *)
(***************************************************************************)
\* the AS-SETs reached from the AS-SETs S without entering one of `avoid`
RECURSIVE ReachIn(_, _, _)
ReachIn(graph, S, avoid) ==
  LET next == S \cup {m \in UNION {graph[x] : x \in S \cap DOMAIN graph} :
                        HasHyphen(m) /\ m \notin avoid}
  IN IF next = S THEN S ELSE ReachIn(graph, next, avoid)

\* the AS-SETs reachable from `root`
ReachableIn(graph, root, avoid) ==
  IF root \in avoid THEN {} ELSE ReachIn(graph, {root}, avoid)

\* x lies on a cycle of the graph
OnCycle(graph, x) ==
  x \in ReachIn(graph, {m \in graph[x] : HasHyphen(m)}, {})

\* C14: remove_recursivity_from_tree returns, for every graph in which
\* every AS-SET member is a key, a graph with the same keys in which no
\* AS-SET reachable from the root lies on a cycle.
C14_SameKeysNoCycle ==
  t_pc = "remove_recursivity_from_tree" =>
    /\ t_exc = "none"
    /\ DOMAIN t_new = DOMAIN t_graph
    /\ \A x \in ReachableIn(t_new, Root, {}) : ~OnCycle(t_new, x)

\* C15: when remove_recursivity_from_tree returns, the removed links and
\* the retained edges are disjoint and together are the edges of the
\* input; every removed link joins two AS-SETs, and every AS-SET keeps its
\* AUT-NUM members.
C15_RemovedAndRetainedPartition ==
  (t_pc = "remove_recursivity_from_tree" /\ t_exc = "none") =>
    /\ Edges(t_new) \cup t_removed = Edges(t_graph)
    /\ Edges(t_new) \cap t_removed = {}
    /\ \A e \in t_removed : HasHyphen(e[1]) /\ HasHyphen(e[2])
    /\ \A k \in DOMAIN t_graph :
         {m \in t_new[k] : ~HasHyphen(m)} = {m \in t_graph[k] : ~HasHyphen(m)}

\* a cycle between two AS-SETs and a link back to the root, both cut
C15_Witness ==
  /\ t_pc = "remove_recursivity_from_tree"
  /\ t_exc = "none"
  /\ t_graph[ASR] = {ASA, AS1}
  /\ t_graph[ASA] = {ASB, ASR, AS2}
  /\ t_graph[ASB] = {ASA}
  /\ t_removed = {<<ASB, ASA>>, <<ASA, ASR>>}

\* C16: in the graph filter_autnum returns every key has a member, every
\* member is an allowed AUT-NUM or an AS-SET that is a key of the returned
\* graph, and every edge is an edge of the input.
C16_FilteredGraphIsClosed ==
  t_pc = "filter_autnum" =>
    \A k \in DOMAIN t_new :
      /\ k \in DOMAIN t_graph
      /\ t_new[k] # {}
      /\ \A m \in t_new[k] :
           /\ m \in t_graph[k]
           /\ IF HasHyphen(m) THEN m \in DOMAIN t_new ELSE m \in t_arg

\* an AS-SET with no allowed AUT-NUM is dropped as a key and as a member
C16_Witness ==
  /\ t_pc = "filter_autnum"
  /\ t_arg = {AS1}
  /\ t_graph[ASR] = {ASA, ASB, AS2}
  /\ t_graph[ASA] = {AS1}
  /\ t_graph[ASB] = {AS2}
  /\ t_new = (ASR :> {ASA}) @@ (ASA :> {AS1})

\* the AS-SETs from which an allowed AUT-NUM can be reached
ReachesAllowed(graph, allowed) ==
  {x \in DOMAIN graph :
     \E y \in ReachIn(graph, {x}, {}) : graph[y] \cap allowed # {}}

\* C17: the graph filter_autnum returns is maximal: every AS-SET that is
\* reachable from the root and from which an allowed AUT-NUM can be reached
\* is a key of it.
C17_FilteredGraphIsMaximal ==
  t_pc = "filter_autnum" =>
    \A x \in ReachableIn(t_graph, Root, {}) \cap ReachesAllowed(t_graph, t_arg) :
      x \in DOMAIN t_new

\* C18: filter_from_graph returns the subgraph induced by the exclusion:
\* its keys are the AS-SETs reachable from the root without entering an
\* excluded one, each with its members minus the excluded ones.
C18_InducedByExclusion ==
  t_pc = "filter_from_graph" =>
    /\ DOMAIN t_new = ReachableIn(t_graph, Root, t_arg)
    /\ \A k \in DOMAIN t_new : t_new[k] = t_graph[k] \ t_arg
    /\ \A k \in DOMAIN t_new : k \notin t_arg /\ t_new[k] \cap t_arg = {}

\* an AS-SET is excluded; one that is left with no member is kept
C18_Witness ==
  /\ t_pc = "filter_from_graph"
  /\ t_arg = {ASB}
  /\ t_graph[ASR] = {ASA, ASB, AS1}
  /\ t_graph[ASA] = {ASB}
  /\ t_graph[ASB] = {AS2}
  /\ t_new = (ASR :> {ASA, AS1}) @@ (ASA :> {})

(***************************************************************************)
(* Properties of the aggregation                                           *)
(***************************************************************************)
\* C19: in the result of irrtree_process every AS-SET has an origin count
\* equal to the number of AUT-NUMs reachable from it and a prefix count
\* equal to the size of the union of their prefix sets, so AS-SETs with
\* equal closures have equal counts; the aggregation does not fail.
C19_CountsAreOfTheClosure ==
  /\ agg # "exception"
  /\ agg = "done" =>
       /\ DOMAIN number_origin_asn_per_asset = DOMAIN as_sets_members
       /\ DOMAIN number_prefixes_per_asset = DOMAIN as_sets_members
       /\ \A x \in DOMAIN as_sets_members :
            /\ number_origin_asn_per_asset[x] =
                 Cardinality(AutNumsReachableFrom(x))
            /\ number_prefixes_per_asset[x] =
                 Cardinality(UNION {prefixes_per_autun[a] :
                                      a \in AutNumsReachableFrom(x)})
       /\ \A x, y \in DOMAIN as_sets_members :
            AutNumsReachableFrom(x) = AutNumsReachableFrom(y) =>
              /\ number_origin_asn_per_asset[x] = number_origin_asn_per_asset[y]
              /\ number_prefixes_per_asset[x] = number_prefixes_per_asset[y]

\* three AS-SETs on cycles share the closure {AS1, AS2}; the prefix sets of
\* the two AUT-NUMs overlap: two prefixes, not three
C19_Witness ==
  /\ agg = "done"
  /\ as_sets_members[ASR] = {ASA, AS2}
  /\ as_sets_members[ASA] = {ASA, ASB}
  /\ as_sets_members[ASB] = {ASA, ASR, AS1}
  /\ prefixes_per_autun[AS1] = {<<"p">>, <<"q">>}
  /\ prefixes_per_autun[AS2] = {<<"p">>}
  /\ number_prefixes_per_asset[ASA] = 2
  /\ number_origin_asn_per_asset[ASA] = 2

(***************************************************************************)
(* Properties of Phase B                                                   *)
(***************************************************************************)
\* the AUT-NUMs that are members in the Membership Graph
AutNumMembers ==
  {m \in UNION {members_per_asset[k] : k \in DOMAIN members_per_asset} :
     ~is_as_set(m)}

\* C20: when Phase B ends by queue drain the Prefix Set has an entry for
\* exactly the AUT-NUMs that are members in the Membership Graph, and one
\* prefix query was made for each of them, none for anything else.
C20_PrefixSetCoversAutNums ==
  coord = "post" =>
    /\ DOMAIN prefixes_per_autun = AutNumMembers
    /\ \A a \in AutNumMembers : asked[a] = 1
    /\ \A i \in AllIds \ (AutNumMembers \cup DOMAIN members_per_asset) :
         asked[i] = 0

\* two AUT-NUMs resolved, one with a prefix and one with none
C20_Witness ==
  /\ coord = "post"
  /\ DOMAIN prefixes_per_autun = {AS1, AS2}
  /\ prefixes_per_autun[AS2] = {<<"p">>}
  /\ prefixes_per_autun[AS1] = {}

(***************************************************************************)
(* More properties of the origin resolver                                  *)
(***************************************************************************)
\* the AS-SETs that wait in the Deferred-Resolution Table: each of them was
\* put there when a call that had traversed its members returned
Deferred == UNION {recursive_as_sets[k] : k \in DOMAIN recursive_as_sets}

\* C21: the member list of an AS-SET is traversed by at most one call: a
\* call that traverses members is never started for an AS-SET whose
\* members a call has traversed before, in particular not for one that
\* waits in the Deferred-Resolution Table.
C21_TraversedOnce ==
  [][Len(rstack') > Len(rstack) =>
       rstack'[Len(rstack')].as_set \notin Deferred]_vars

(***************************************************************************)
(* More properties of the graph transformations                            *)
(***************************************************************************)
\* C22: after a call of one of the three transformations the mapping it was
\* given has the keys and the member sets it had before, and no key of the
\* returned graph holds a set object of the given mapping.
C22_InputLeftAlone ==
  t_pc \in {"remove_recursivity_from_tree", "filter_autnum", "filter_from_graph"} =>
    /\ t_objects = t_graph
    /\ \A k \in DOMAIN t_new_ids :
         t_new_ids[k] \notin {InputIds(t_graph)[j] : j \in DOMAIN t_graph}

\* links were removed from the copy, and the given graph still has them
C22_Witness ==
  /\ t_pc = "remove_recursivity_from_tree"
  /\ t_exc = "none"
  /\ t_removed = {<<ASA, ASR>>}
  /\ ASR \in t_objects[ASA]
  /\ ASR \notin t_new[ASA]
  /\ DOMAIN t_new_ids = DOMAIN t_graph

\* what the graph alone says the memo and the outcome must be
ClosureOf == [x \in SetsReachableFrom({Root}) |-> AutNumsReachableFrom(x)]

OutcomeOf ==
  IF SetsReachableFrom({Root}) = DOMAIN as_sets_members THEN "returned" ELSE "assert_keys"

\* C23: the closures are a function of the graph and the root only. The
\* loop over the members of an AS-SET takes them in every possible order;
\* on a graph in which every AS-SET member is a key, whatever the order, a
\* closure that has been finalized is the one the graph determines, and
\* when the root has returned the whole memo and the outcome are the ones
\* the graph determines, so two runs that differ in the orders agree.
C23_ClosuresIndependentOfOrder ==
  WellFormed =>
    /\ \A x \in DOMAIN origin_ases_per_asset :
         origin_ases_per_asset[x] = AutNumsReachableFrom(x)
    /\ RootReturned =>
         /\ origin_ases_per_asset = ClosureOf
         /\ rstate = OutcomeOf

\* resolved on a graph with two cycles through the root, where the order
\* of the members of the root decides which AS-SET is traversed twice
C23_Witness ==
  /\ rstate = "returned"
  /\ as_sets_members[ASR] = {ASA, ASB}
  /\ as_sets_members[ASA] = {ASR, AS1}
  /\ as_sets_members[ASB] = {ASA, AS2}
  /\ calls = 4
  /\ origin_ases_per_asset[ASA] = {AS1, AS2}

\* C29: in every call of get_origin_asns, the recursive parent is the
\* ancestor of smallest index in the path among the ancestors met so far
\* as a member of the AS-SET (a back-edge) or reported by the call of a
\* member, the AS-SET itself excluded, and it is none exactly when no such
\* ancestor has been met; when the loop is over, and the call returns it,
\* every back-edge of the AS-SET has been counted.
C29_RecursiveParentIsHighest ==
  \A d \in 1 .. Len(rstack) :
    LET call == rstack[d]
        P == Parents(d)
        seen == as_sets_members[call.as_set] \ call.todo
    IN /\ call.candidates \subseteq Range(P)
       /\ call.as_set \notin call.candidates
       /\ (seen \cap Range(P)) \subseteq call.candidates
       /\ (call.recursive_parent = None) <=> (call.candidates = {})
       /\ call.candidates # {} =>
            /\ call.recursive_parent \in call.candidates
            /\ \A c \in call.candidates :
                 Index(call.recursive_parent, P) <= Index(c, P)

\* the call for AS-B under AS-R and AS-A is about to return: AS-B has both
\* as members, and the call for AS-A has been told of AS-R by an earlier
\* member
C29_Witness ==
  /\ rstate = "run"
  /\ Len(rstack) = 3
  /\ rstack[1].as_set = ASR
  /\ rstack[2].as_set = ASA
  /\ rstack[3].as_set = ASB
  /\ rstack[3].todo = {}
  /\ rstack[3].candidates = {ASR, ASA}
  /\ rstack[3].recursive_parent = ASR

\* the tasks that drive the connection of worker w: a task that is alive
\* and, for the phase that is running, inside a query
Drivers(w) ==
  {ph \in {"A", "B"} :
     \/ ph = "A" /\ taskA[w] = "pending" /\ (coord = "joinA" => Holding(w))
     \/ ph = "B" /\ taskB[w] = "pending" /\ (coord = "joinB" => Holding(w))}

\* C24: the connection of a Worker is driven by at most one task at any
\* instant: the Phase B task of a Worker is never alive together with its
\* Phase A task, and when Phase A ends by drain every Phase A task is
\* blocked in queue.get(), holding no identifier, not inside a query.
C24_OneTaskPerSession ==
  [][/\ \A w \in Workers : Cardinality(Drivers(w)) <= 1
     /\ \A w \in Workers : Cardinality(Drivers(w)') <= 1
     /\ (coord = "joinA" /\ coord' = "joinB") =>
          \A w \in Workers : pc[w] = "get" /\ item[w] = None]_vars

\* Phase B: the task of a Worker reads a payload on the connection that
\* the cancelled Phase A task of the same Worker has used
C24_Witness ==
  /\ coord = "joinB"
  /\ \E w \in Workers :
       /\ pc[w] = "payload"
       /\ taskA[w] = "cancelled"
       /\ taskB[w] = "pending"
       /\ asked[Root] = 1
       /\ item[w] = AS1

\* C27: when a phase ends by queue drain the coordinator cancels every
\* worker task of the phase, and an identifier put on the queue for
\* Phase B is never taken from it by a Phase A task: whoever takes an
\* identifier in Phase B is a Phase B task, and no Phase A task is alive.
C27_DrainCancelsThePhase ==
  [][/\ (coord = "joinA" /\ coord' = "joinB") =>
          \A w \in Workers : taskA'[w] = "cancelled"
     /\ (coord = "joinB" /\ coord' = "post") =>
          \A w \in Workers : taskB'[w] = "cancelled"
     /\ (coord = "joinB" /\ queue' # queue) =>
          /\ \A w \in Workers : taskA[w] # "pending"
          /\ \E w \in Workers : taskB[w] = "pending" /\ pc[w] = "get"
          /\ Head(queue) \notin visited]_vars

\* both phases have ended by drain, with prefixes resolved in Phase B
C27_Witness ==
  /\ coord = "post"
  /\ \A w \in Workers : taskA[w] = "cancelled" /\ taskB[w] = "cancelled"
  /\ AS1 \in DOMAIN prefixes_per_autun
  /\ DOMAIN members_per_asset = {ASR, ASA}

\* the number of places where identifier x is: recorded, in the queue, or
\* held by the task of a worker that is querying it
QueueCount(x) == Cardinality({i \in 1 .. Len(queue) : queue[i] = x})

Places(x) ==
  (IF x \in DOMAIN members_per_asset THEN 1 ELSE 0)
  + QueueCount(x)
  + Cardinality({w \in Workers : item[w] = x /\ Holding(w) /\ taskA[w] = "pending"})

VisitedAccounted ==
  /\ \A x \in visited : Places(x) = 1
  /\ \A k \in DOMAIN members_per_asset :
       \A m \in members_per_asset[k] : is_as_set(m) => m \in visited

MaxStrLen == 4

\* the characters the tests tell apart: the letters of the prefix in both
\* cases, the hyphen, a digit, another letter
Alphabet == {"A", "a", "S", "s", "-", "1", "B"}

Strings == UNION {[1 .. k -> Alphabet] : k \in 0 .. MaxStrLen}

\* what the lexical tests leave alone
non_lexer_vars == <<crawl_vars, resolver_vars, session_vars, transform_vars, printer_vars, compare_vars>>

InitLexer ==
  /\ CrawlIdle
  /\ ResolverIdle
  /\ SessionIdle
  /\ TransformIdle
  /\ PrinterIdle
  /\ CompareIdle
  /\ l_pc = "input"
  /\ l_x \in Strings
  /\ l_is_as_set = FALSE
  /\ l_members = {}
  /\ l_enqueue = {}

\* is_as_set(l_x)
IsAsSet ==
  /\ l_pc = "input"
  /\ l_is_as_set' = is_as_set(l_x)
  /\ l_pc' = "tested"
  /\ UNCHANGED <<l_x, l_members, l_enqueue>>
  /\ UNCHANGED non_lexer_vars

\* the registry names l_x as a member: the validation of get_members
\* (lines 156-168), then the loop of run_get_tree (lines 218-227) on a
\* crawl that has visited nothing
Validate ==
  /\ l_pc = "tested"
  /\ l_members' = ValidMembers({l_x})
  /\ l_enqueue' = ToEnqueue(ValidMembers({l_x}), {}, EmptyMap)
  /\ l_pc' = "validated"
  /\ UNCHANGED <<l_x, l_is_as_set>>
  /\ UNCHANGED non_lexer_vars

NextLexer == IsAsSet \/ Validate

SpecLexer == InitLexer /\ [][NextLexer]_vars

\* x begins with "AS" in any letter case
BeginsWithAS(x) == Len(x) >= 2 /\ Upper(SubSeq(x, 1, 2)) = <<"A", "S">>

\* C26: is_as_set(x) is true exactly when x begins with "AS" in any letter
\* case and contains a hyphen, and on every token that the validation of
\* get_members has kept, the test of the crawler (hyphen present, which
\* puts the token on the queue) agrees with is_as_set.
C26_IsAsSetIsPrefixAndHyphen ==
  /\ l_pc \in {"tested", "validated"} =>
       (l_is_as_set <=> (BeginsWithAS(l_x) /\ "-" \in Range(l_x)))
  /\ l_pc = "validated" =>
       \A m \in l_members : (m \in l_enqueue) <=> is_as_set(m)

\* a token in lower case with digits before its hyphen: an AS-SET by
\* is_as_set, kept by the validation as an AUT-NUM-like token, enqueued
C26_Witness ==
  /\ l_pc = "validated"
  /\ l_x = <<"a", "s", "1", "-">>
  /\ l_is_as_set
  /\ l_members = {<<"A", "S", "1", "-">>}
  /\ l_enqueue = l_members

\* where in s_wire the command of the call was sent
QuerySends ==
  {i \in 1 .. Len(s_wire) : s_wire[i].op = "send" /\ s_wire[i].text = Query}

\* where in s_wire the status line of the call was an end-of-stream
StatusEofs ==
  {i \in 2 .. Len(s_wire) :
     s_wire[i].op = "recv" /\ s_wire[i].text = <<>> /\ (i - 1) \in QuerySends}

\* the events of one restart, on the old connection c and the new one n, up
\* to the second send of the command
RestartLength == IF s_sources THEN 8 ELSE 6

RestartedAfter(i) ==
  LET c == s_wire[i].conn
      n == c + 1
      rest == SubSeq(s_wire, i + 1, Len(s_wire))
      failed == s_pc = "raised" /\ s_exc.kind = "restart_failed"
  IN /\ Len(rest) >= 1
     /\ rest[1] = Closed(c)
     /\ Len(rest) = 1 => failed
     /\ Len(rest) > 1 =>
          /\ Len(rest) >= 4
          /\ SubSeq(rest, 1, 4) =
               <<Closed(c), Opened(n), Sent(n, <<"!!">>), Sent(n, <<"!t1000">>)>>
          /\ Len(rest) = 4 => s_pc = "timeout"
          /\ Len(rest) > 4 =>
               /\ Len(rest) >= 6
               /\ rest[5].op = "recv" /\ rest[5].conn = n
               /\ IF s_sources
                  THEN /\ rest[6] = Sent(n, <<"!s">>)
                       /\ Len(rest) = 6 => s_pc = "sources"
                       /\ Len(rest) > 6 =>
                            /\ rest[7].op = "recv" /\ rest[7].conn = n
                            /\ IF rest[7].text = <<"C">>
                               THEN Len(rest) >= 8 /\ rest[8] = Sent(n, Query)
                               ELSE Len(rest) = 7 /\ failed
                  ELSE rest[6] = Sent(n, Query)

\* C28: an end-of-stream on the status line either finds the restart
\* budget used up and ends the call, or it is followed by the close of
\* the old connection, the opening of a new one, the handshake (extended
\* mode, timeout, the answer to the timeout, and with sources configured
\* the source restriction and its answer C) and then the same command on
\* the new connection, unless opening or the handshake fails, which ends
\* the call with an exception. The command is sent again only at the end
\* of such a restart, nothing is read or sent on a connection once it is
\* closed, and every line is read on the connection of the last send.
C28_RestartRunsTheHandshake ==
  /\ \A i \in StatusEofs :
       \/ /\ i = Len(s_wire)
          /\ s_pc = "raised"
          /\ s_exc.kind = "restarts_exhausted"
          /\ s_restarts < 0
       \/ RestartedAfter(i)
  /\ \A i \in QuerySends \ {1} : (i - RestartLength) \in StatusEofs
  /\ \A i, j \in 1 .. Len(s_wire) :
       (i < j /\ s_wire[i].op = "close") => s_wire[j].conn # s_wire[i].conn
  /\ \A j \in 2 .. Len(s_wire) :
       s_wire[j].op = "recv" =>
         \E i \in 1 .. (j - 1) :
           /\ s_wire[i].op = "send"
           /\ s_wire[i].conn = s_wire[j].conn
           /\ \A k \in (i + 1) .. (j - 1) : s_wire[k].op = "recv"
  /\ s_pc \in {"status", "payload", "close", "returned"} =>
       /\ QuerySends # {}
       /\ \A e \in StatusEofs : \E i \in QuerySends : i > e
       /\ \A i \in QuerySends : s_wire[i].conn <= s_conn
       /\ \E i \in QuerySends : s_wire[i].conn = s_conn

\* get_members on AS-R with sources configured: the first status line is
\* an end-of-stream, the session restarts, and the answer read on the
\* second connection is returned
C28_Witness ==
  /\ s_pc = "returned"
  /\ s_cmd = "i"
  /\ s_sources
  /\ s_conn = 2
  /\ s_sent = 2
  /\ Len(s_wire) = 13
  /\ s_wire[2] = Received(1, <<>>)
  /\ s_wire[10] = Sent(2, Query)
  /\ s_out = {ASA}

(***************************************************************************)
(* The report: print_asset_tree on a Result Structure with the default     *)
(* printing options, parse_irrtree_return_irrasciitreedata on the text,    *)
(* and print_asset_tree on what the parser returned.  A line of text is    *)
(* the sequence of its characters.                                         *)
(***************************************************************************)
\* what the report leaves alone
non_printer_vars ==
  <<crawl_vars, resolver_vars, session_vars, transform_vars, lexer_vars,
    compare_vars>>

DigitChars == <<"0", "1", "2", "3", "4", "5", "6", "7", "8", "9">>

\* "%s" % n for a number that is not negative
RECURSIVE Str(_)
Str(n) ==
  IF n < 10 THEN <<DigitChars[n + 1]>>
  ELSE Str(n \div 10) \o <<DigitChars[(n % 10) + 1]>>

\* print_autnum, lines 18-20
print_autnum(autum, prefix_number) ==
  autum \o <<" ", "(">> \o Str(prefix_number) \o <<" ", "p", "f", "x", "s", ")">>

AlreadyExpanded == <<"a", "l", "r", "e", "a", "d", "y", " ", "e", "x", "p", "a", "n", "d", "e", "d">>

\* a printer that does not say why an AS-SET is not expanded
print_as_set_plain(asset, origin_ases, prefixes, non_expansion_text) ==
  asset \o <<" ", "(">> \o Str(origin_ases) \o <<" ", "A", "S", "N", "s", ",", " ">>
        \o Str(prefixes) \o <<" ", "p", "f", "x", "s", ")">>

\* print_as_set, lines 23-43, with prefix_approximation off
print_as_set(asset, origin_ases, prefixes, non_expansion_text) ==
  LET res == asset \o <<" ", "(">> \o Str(origin_ases) \o <<" ", "A", "S", "N", "s", ",", " ">>
                   \o Str(prefixes) \o <<" ", "p", "f", "x", "s", ")">>
  IN IF non_expansion_text # <<>>
     THEN res \o <<" ", "-", " ">> \o non_expansion_text
     ELSE res

\* the tree that print_branch builds, in the order of its keys: each key
\* with its depth
Node(level, key) == [level |-> level, key |-> key]

\* print_branch, lines 94-124: prefixes and origin ASNs of a member
MemberData(member, data) ==
  IF HasHyphen(member)
  THEN <<data.number_prefixes_per_asset[member],
         data.number_origin_asn_per_asset[member]>>
  ELSE <<data.number_prefixes_per_asn[member], 0>>

\* print_branch, lines 126-137: the metric of x is below the metric of y
MemberBefore(x, y, data, sorting_option) ==
  IF sorting_option = "by_name" THEN StrLess(x, y)
  ELSE LET v == MemberData(x, data)
           w == MemberData(y, data)
       IN IF v[1] # w[1] THEN v[1] > w[1]
          ELSE IF v[2] # w[2] THEN v[2] > w[2]
          ELSE StrLess(x, y)

\* print_branch, line 139: sorted(unsorted_member_data, key=...)
RECURSIVE SortedMembers(_, _, _)
SortedMembers(members, data, sorting_option) ==
  IF members = {} THEN <<>>
  ELSE LET first == CHOOSE x \in members :
                      \A y \in members \ {x} : MemberBefore(x, y, data, sorting_option)
       IN <<first>> \o SortedMembers(members \ {first}, data, sorting_option)

\* print_branch, lines 46-167, with no top level, no prefix threshold and
\* AUT-NUMs shown; print_members is its loop over the sorted members
\* (lines 139-151). Both return the nodes below and the AS-SETs seen.
RECURSIVE print_branch(_, _, _, _, _)
RECURSIVE print_members(_, _, _, _, _)
print_branch(asset, data, seen_assets, level, sorting_option) ==
  LET seen == seen_assets \cup {asset}
      prefixes == data.number_prefixes_per_asset[asset]
      origin_asns == data.number_origin_asn_per_asset[asset]
  IN IF asset \in seen_assets
     THEN [seen |-> seen,
           nodes |-> <<Node(level, print_as_set(asset, origin_asns, prefixes,
                                                AlreadyExpanded))>>]
     ELSE LET below == print_members(
                         SortedMembers(data.members_per_asset[asset], data,
                                       sorting_option),
                         data, seen, level + 1, sorting_option)
          IN [seen |-> below.seen,
              nodes |-> <<Node(level, print_as_set(asset, origin_asns, prefixes,
                                                   <<>>))>> \o below.nodes]

print_members(members, data, seen_assets, level, sorting_option) ==
  IF members = <<>> THEN [seen |-> seen_assets, nodes |-> <<>>]
  ELSE LET member == Head(members)
           first == IF HasHyphen(member)
                    THEN print_branch(member, data, seen_assets, level,
                                      sorting_option)
                    ELSE [seen |-> seen_assets,
                          nodes |-> <<Node(level,
                                           print_autnum(member,
                                             data.number_prefixes_per_asn[member]))>>]
           rest == print_members(Tail(members), data, first.seen, level,
                                 sorting_option)
       IN [seen |-> rest.seen, nodes |-> first.nodes \o rest.nodes]

\* asciitree.LeftAligned (print_asset_tree, lines 209-210): the node at
\* depth k above or at node i has another child of its parent below it
Continues(nodes, i, k) ==
  \E j \in (i + 1) .. Len(nodes) :
    /\ nodes[j].level = k
    /\ \A n \in (i + 1) .. (j - 1) : nodes[n].level > k

\* the columns drawn for the depths 1 .. k-1 to the left of a node
RECURSIVE Columns(_, _, _)
Columns(nodes, i, k) ==
  IF k <= 1 THEN <<>>
  ELSE Columns(nodes, i, k - 1)
         \o (IF Continues(nodes, i, k - 1) THEN <<" ", "|", " ", " ">> ELSE <<" ", " ", " ", " ">>)

\* the line of node i
TreeLine(nodes, i) ==
  IF nodes[i].level = 0 THEN nodes[i].key
  ELSE Columns(nodes, i, nodes[i].level) \o <<" ", "+", "-", "-", " ">> \o nodes[i].key

LeftAligned(nodes) == [i \in 1 .. Len(nodes) |-> TreeLine(nodes, i)]

\* datetime.strftime(TIME_FORMAT): "%Y-%m-%d %H:%M", the seconds are not
\* printed
strftime(date) == date.day \o <<" ">> \o date.minute

\* the fixed words of the first line (print_asset_tree, line 183, and
\* first_line_parser)
FirstLineWords ==
  <<<<"I", "R", "R", "T", "r", "e", "e", " ", "(">>,
    <<")", " ", "r", "e", "p", "o", "r", "t", " ", "f", "o", "r", " ", "'">>,
    <<"'", " ", "(">>,
    <<")", ",", " ", "u", "s", "i", "n", "g", " ">>,
    <<" ", "a", "t", " ">>>>

\* print_asset_tree, lines 181-191: the first line
FirstLine(version, root_object, afi, irr_host, date) ==
  FirstLineWords[1] \o version
    \o FirstLineWords[2] \o root_object
    \o FirstLineWords[3] \o <<"I", "P", "v">> \o Str(afi)
    \o FirstLineWords[4] \o irr_host
    \o FirstLineWords[5] \o strftime(date)

PrintingOptions == <<"I", "R", "R", "T", "r", "e", "e", " ", "p", "r", "i", "n", "t", "i", "n", "g", " ", "o", "p", "t", "i", "o", "n", "s", ":">>

\* print_asset_tree, lines 203-205: the line of the printing options;
\* sorting_option is always set
PrintingOptionsLine(sorting_option) ==
  PrintingOptions \o <<" ">> \o
    (IF sorting_option = "by_name" THEN <<"{", "\"", "s", "o", "r", "t", "i", "n", "g", "_", "o", "p", "t", "i", "o", "n", "\"", ":", " ", "\"", "b", "y", "_", "n", "a", "m", "e", "\"", "}">> ELSE <<"{", "\"", "s", "o", "r", "t", "i", "n", "g", "_", "o", "p", "t", "i", "o", "n", "\"", ":", " ", "\"", "b", "y", "_", "p", "r", "e", "f", "i", "x", "_", "c", "o", "u", "n", "t", "\"", "}">>)

Version == <<"2", ".", "0">>

\* print_asset_tree, lines 169-212, without filters and remove_recursivity
print_asset_tree(data, server_options, sorting_option) ==
  [first_line |-> FirstLine(Version, data.root_as_set, server_options.afi,
                            server_options.irr_host, server_options.date),
   lines |-> <<PrintingOptionsLine(sorting_option)>>
               \o LeftAligned(print_branch(data.root_as_set, data, {}, 0,
                                           sorting_option).nodes)]

\* str.find, counted from 1: 0 when sub does not occur in text
Find(text, sub) ==
  LET at == {i \in 1 .. (Len(text) - Len(sub) + 1) :
               SubSeq(text, i, i + Len(sub) - 1) = sub}
  IN IF at = {} THEN 0 ELSE CHOOSE i \in at : \A j \in at : i <= j

\* str.strip() on a line
RECURSIVE Strip(_)
Strip(text) ==
  IF text = <<>> THEN text
  ELSE IF Head(text) = " " THEN Strip(Tail(text))
  ELSE IF text[Len(text)] = " " THEN Strip(SubSeq(text, 1, Len(text) - 1))
  ELSE text

\* str.split(c)
RECURSIVE Split(_, _)
Split(text, c) ==
  LET at == Find(text, <<c>>)
  IN IF at = 0 THEN <<text>>
     ELSE <<SubSeq(text, 1, at - 1)>> \o Split(SubSeq(text, at + 1, Len(text)), c)

\* int(text) succeeds
IsNumber(text) == text # <<>> /\ \A i \in 1 .. Len(text) : text[i] \in Digits

\* int(text)
RECURSIVE int(_)
int(text) ==
  IF text = <<>> THEN 0
  ELSE LET digit == CHOOSE d \in 0 .. 9 : DigitChars[d + 1] = text[Len(text)]
       IN 10 * int(SubSeq(text, 1, Len(text) - 1)) + digit

\* a count that a key does not give (None)
NoCount == 0 - 1

AsSetSummaryData(as_set, asn_count, pfx_count) ==
  [exc |-> "none", as_set |-> as_set, asn_count |-> asn_count,
   pfx_count |-> pfx_count]

ParseException(what) ==
  [exc |-> what, as_set |-> <<>>, asn_count |-> NoCount, pfx_count |-> NoCount]

\* parse_as_data, lines 70-94: the pieces between the parentheses, one
\* after the other
RECURSIVE parse_pieces(_, _)
parse_pieces(pieces, so_far) ==
  IF pieces = <<>> \/ so_far.exc # "none" THEN so_far
  ELSE LET splitted == Split(Strip(Head(pieces)), " ")
       IN IF Len(splitted) # 2
          THEN ParseException("no number and text")
          ELSE IF ~IsNumber(splitted[1])
          THEN ParseException("not a number")
          ELSE IF splitted[2] = <<"p", "f", "x", "s">>
          THEN parse_pieces(Tail(pieces),
                            [so_far EXCEPT !.pfx_count = int(splitted[1])])
          ELSE IF splitted[2] = <<"A", "S", "N", "s">>
          THEN parse_pieces(Tail(pieces),
                            [so_far EXCEPT !.asn_count = int(splitted[1])])
          ELSE ParseException("text not recognized")

\* AsSetSummaryData.parse_as_data, lines 47-98
parse_as_data(as_data_strin) ==
  LET opening == Find(as_data_strin, <<"(">>)
      closening == Find(as_data_strin, <<")">>)
  IN IF opening = 0
     THEN AsSetSummaryData(Strip(as_data_strin), NoCount, NoCount)
     ELSE IF closening = 0
     THEN ParseException("no closing parenthesis")
     ELSE parse_pieces(
            Split(SubSeq(as_data_strin, opening + 1, closening - 1), ","),
            AsSetSummaryData(SubSeq(as_data_strin, 1, opening - 2),
                             NoCount, NoCount))

\* parse_key, lines 213-236: the data of a key, and whether the key says
\* that the AS-SET was expanded before
parse_key(tree_key) ==
  LET parenthesis_location == Find(tree_key, <<")">>)
      text_after_parenthesis ==
        Strip(SubSeq(tree_key, parenthesis_location + 1, Len(tree_key)))
      data == parse_as_data(SubSeq(tree_key, 1, parenthesis_location))
      already == text_after_parenthesis # <<>>
  IN IF already /\ text_after_parenthesis # <<"-", " ", "a", "l", "r", "e", "a", "d", "y", " ", "e", "x", "p", "a", "n", "d", "e", "d">>
     THEN [data |-> ParseException("text after parenthesis"), already |-> FALSE]
     ELSE IF data.exc = "none" /\ already /\ ~HasHyphen(data.as_set)
     THEN [data |-> ParseException("already expanded on a non as-set"),
           already |-> FALSE]
     ELSE [data |-> data, already |-> already]

Pointer == <<"+", "-", "-">>
Divisor == Len(Pointer) + 1

\* parse_ascii_tree, lines 8-37: the keys with their depths, in the order
\* of the lines; so_far.nodes are the nodes of the lines before
RECURSIVE parse_ascii_tree_lines(_, _)
parse_ascii_tree_lines(lines, so_far) ==
  IF lines = <<>> \/ so_far.exc # "none" THEN so_far
  ELSE LET line == Head(lines)
           at == Find(line, Pointer)
           elements_minus_space == at - 2
           hierarchy == elements_minus_space \div Divisor
           depth == IF so_far.nodes = <<>> THEN 0
                    ELSE so_far.nodes[Len(so_far.nodes)].level
       IN IF line = <<>> THEN parse_ascii_tree_lines(Tail(lines), so_far)
          ELSE IF at = 0
          THEN [so_far EXCEPT !.exc = "no pointer"]
          ELSE IF elements_minus_space % Divisor # 0
          THEN [so_far EXCEPT !.exc = "not divisible"]
          ELSE IF hierarchy > depth
          THEN [so_far EXCEPT !.exc = "IndexError"]
          ELSE parse_ascii_tree_lines(
                 Tail(lines),
                 [so_far EXCEPT !.nodes =
                    Append(@, Node(hierarchy + 1,
                                   SubSeq(line, at + Len(Pointer) + 1, Len(line))))])

parse_ascii_tree(lines) ==
  IF lines = <<>> \/ Head(lines) = <<>>
  THEN [nodes |-> <<>>, exc |-> "no head"]
  ELSE parse_ascii_tree_lines(Tail(lines),
                              [nodes |-> <<Node(0, Head(lines))>>, exc |-> "none"])

\* the keys of parsed_tree[element], in their order
Elements(nodes, i) ==
  LET below == {j \in (i + 1) .. Len(nodes) :
                  /\ nodes[j].level = nodes[i].level + 1
                  /\ \A n \in (i + 1) .. (j - 1) : nodes[n].level > nodes[i].level}
  IN [k \in 1 .. Cardinality(below) |->
        CHOOSE j \in below : Cardinality({n \in below : n < j}) = k - 1]

\* get_irr_tree_data, lines 242-305 over the elements of one level; so_far
\* holds asset_data and asset_members. get_irr_tree_element is the body of
\* its loop (lines 258-305) for the first element, with its parsed key.
RECURSIVE get_irr_tree_data(_, _, _, _)
RECURSIVE get_irr_tree_element(_, _, _, _, _)
get_irr_tree_data(nodes, elements, parent_element, so_far) ==
  IF elements = <<>> \/ so_far.exc # "none" THEN so_far
  ELSE get_irr_tree_element(nodes, elements, parent_element, so_far,
                            parse_key(nodes[Head(elements)].key))

get_irr_tree_element(nodes, elements, parent_element, so_far, key) ==
  LET element == Head(elements)
      as_data == key.data
      name == key.data.as_set
      readded == /\ parent_element # None
                 /\ key.data.as_set \in so_far.asset_members[parent_element]
      added == IF parent_element = None THEN so_far
               ELSE [so_far EXCEPT !.asset_members[parent_element] =
                                     @ \cup {key.data.as_set}]
  IN IF as_data.exc # "none" THEN [so_far EXCEPT !.exc = as_data.exc]
     ELSE IF readded THEN [so_far EXCEPT !.exc = "re-adding"]
     ELSE IF key.already
     THEN IF name \notin DOMAIN added.asset_data
          THEN [added EXCEPT !.exc = "says it is expanded, but it is not"]
          ELSE IF as_data # added.asset_data[name]
          THEN [added EXCEPT !.exc = "AssertionError"]
          ELSE IF Elements(nodes, element) # <<>>
          THEN [added EXCEPT !.exc = "expanded, but it has elements"]
          ELSE get_irr_tree_data(nodes, Tail(elements), parent_element, added)
     ELSE IF name \in DOMAIN added.asset_data
     THEN IF HasHyphen(name)
          THEN [added EXCEPT !.exc = "seems to be not expanded"]
          ELSE IF as_data # added.asset_data[name]
          THEN [added EXCEPT !.exc = "different stats"]
          ELSE get_irr_tree_data(nodes, Tail(elements), parent_element, added)
     ELSE get_irr_tree_data(
            nodes, Tail(elements), parent_element,
            get_irr_tree_data(
              nodes, Elements(nodes, element), name,
              [added EXCEPT !.asset_members = (name :> {}) @@ @,
                            !.asset_data = (name :> as_data) @@ @]))

\* datetime.strptime(text, TIME_FORMAT) on a text of ten characters, a
\* space and five characters, as strftime writes it
strptime(text) ==
  IF Len(text) = 16 /\ text[11] = " "
  THEN [exc |-> "none", day |-> SubSeq(text, 1, 10),
        minute |-> SubSeq(text, 12, 16), second |-> 0]
  ELSE [exc |-> "ValueError"]

\* the places of word in text, counted from 1
Occurrences(text, word) ==
  {i \in 1 .. (Len(text) - Len(word) + 1) :
     SubSeq(text, i, i + Len(word) - 1) = word}

\* first_line_parser.match, after its first word: each (.*) is greedy, so
\* the word that ends a group is taken at its last place for which the
\* rest of the text still matches; the last group runs to the end
RECURSIVE Groups(_, _)
Groups(text, words) ==
  IF words = <<>> THEN [ok |-> TRUE, groups |-> <<text>>]
  ELSE LET word == Head(words)
           after(i) == Groups(SubSeq(text, i + Len(word), Len(text)), Tail(words))
           at == {i \in Occurrences(text, word) : after(i).ok}
       IN IF at = {} THEN [ok |-> FALSE, groups |-> <<>>]
          ELSE LET last == CHOOSE i \in at : \A j \in at : j <= i
               IN [ok |-> TRUE,
                   groups |-> <<SubSeq(text, 1, last - 1)>> \o after(last).groups]

\* IrrRunData.parse_first_line, lines 166-184, on the groups of the match
IrrRunData(groups, date) ==
  IF groups[3] \notin {<<"I", "P", "v", "4">>, <<"I", "P", "v", "6">>}
  THEN [exc |-> "version text not recognized"]
  ELSE IF date.exc # "none" THEN [exc |-> date.exc]
  ELSE [exc |-> "none",
        irr_version |-> groups[1],
        as_set |-> groups[2],
        ipversion |-> IF groups[3] = <<"I", "P", "v", "4">> THEN 4 ELSE 6,
        server |-> groups[4],
        date |-> [day |-> date.day, minute |-> date.minute,
                  second |-> date.second]]

\* the match of first_line_parser on a line that starts with its first word
first_line_parser(line, result) ==
  IF ~result.ok THEN [exc |-> "error parsing irr data from line"]
  ELSE IrrRunData(result.groups, strptime(result.groups[5]))

\* IrrRunData.parse_first_line, lines 158-184
parse_first_line(line) ==
  IF SubSeq(line, 1, Len(FirstLineWords[1])) # FirstLineWords[1]
  THEN [exc |-> "error parsing irr data from line"]
  ELSE first_line_parser(
         line,
         Groups(SubSeq(line, Len(FirstLineWords[1]) + 1, Len(line)),
                Tail(FirstLineWords)))

\* str.startswith
StartsWith(text, start) ==
  Len(text) >= Len(start) /\ SubSeq(text, 1, Len(start)) = start

ExtraOptions == <<"I", "R", "R", "T", "r", "e", "e", " ", "e", "x", "t", "r", "a", " ", "o", "p", "t", "i", "o", "n", "s", ":">>

\* parse_irrtree, lines 330-349: the lines of the optional options are
\* left out
RestOfLines(lines) ==
  LET after_extra == IF lines # <<>> /\ StartsWith(Head(lines), ExtraOptions)
                     THEN Tail(lines) ELSE lines
  IN IF after_extra # <<>> /\ StartsWith(Head(after_extra), PrintingOptions)
     THEN Tail(after_extra) ELSE after_extra

\* parse_irrtree, lines 359-369: an AUT-NUM must have no members, and is
\* no key of the members
WithoutAutNums(asset_members) ==
  [k \in {x \in DOMAIN asset_members : HasHyphen(x)} |-> asset_members[k]]

\* convert_to_irrasciitree, lines 374-404
convert_to_irrasciitree(metadata, parsed_data, parsed_members) ==
  LET names == DOMAIN parsed_data
      autnums == {x \in names : ~HasHyphen(x)}
      assets == {x \in names : HasHyphen(x)}
  IN IF \E x \in autnums : parsed_data[x].asn_count \notin {NoCount, 0}
     THEN [exc |-> "AssertionError"]
     ELSE IF \E x \in assets : \/ parsed_data[x].pfx_count = NoCount
                               \/ parsed_data[x].asn_count = NoCount
     THEN [exc |-> "AssertionError"]
     ELSE [exc |-> "none",
           root_as_set |-> metadata.as_set,
           members_per_asset |-> parsed_members,
           number_prefixes_per_asn |->
             [x \in autnums |-> IF parsed_data[x].pfx_count # NoCount
                                THEN parsed_data[x].pfx_count ELSE 0],
           number_origin_asn_per_asset |->
             [x \in assets |-> parsed_data[x].asn_count],
           number_prefixes_per_asset |->
             [x \in assets |-> parsed_data[x].pfx_count]]

\* what the caller of the parser gets when it raises
ParseFailed(what) == [exc |-> what, metadata |-> <<>>, data |-> <<>>]

\* parse_irrtree_return_irrasciitreedata, line 410, for the values that
\* parse_irrtree returned
parse_irrtree_converted(metadata, data) ==
  IF data.exc # "none" THEN ParseFailed(data.exc)
  ELSE [exc |-> "none", metadata |-> metadata, data |-> data]

\* parse_irrtree, lines 354-366, for the metadata and what
\* get_irr_tree_data collected from the parsed tree
parse_irrtree_walked(metadata, walked) ==
  IF walked.exc # "none" THEN ParseFailed(walked.exc)
  ELSE IF \E x \in DOMAIN walked.asset_members :
            ~HasHyphen(x) /\ walked.asset_members[x] # {}
  THEN ParseFailed("AUT-NUM has members")
  ELSE parse_irrtree_converted(
         metadata,
         convert_to_irrasciitree(metadata, walked.asset_data,
                                 WithoutAutNums(walked.asset_members)))

\* parse_irrtree, lines 308-366, for the parsed first line and the parsed
\* tree
parse_irrtree(metadata, ascii_tree) ==
  IF metadata.exc # "none" THEN ParseFailed(metadata.exc)
  ELSE IF ascii_tree.exc # "none" THEN ParseFailed(ascii_tree.exc)
  ELSE parse_irrtree_walked(
         metadata,
         get_irr_tree_data(ascii_tree.nodes, <<1>>, None,
                           [asset_data |-> EmptyMap, asset_members |-> EmptyMap,
                            exc |-> "none"]))

\* parse_irrtree_return_irrasciitreedata, lines 405-410
parse_irrtree_return_irrasciitreedata(text) ==
  parse_irrtree(parse_first_line(text.first_line),
                parse_ascii_tree(RestOfLines(text.lines)))

\* the members an AS-SET of a printed structure may have
MaxPrintedMembers == 2

PrintedMemberSets ==
  {S \in SUBSET (RAsSets \cup RAutNums) : Cardinality(S) <= MaxPrintedMembers}

\* the numbers of prefixes an AUT-NUM may have
PrefixNumbers == {0, 12}

\* the AS-SETs that the crawl of `graph` from Root records
Crawled(graph) == ReachIn(graph, {Root}, {})

\* the AUT-NUMs below as_set
OriginAsns(graph, as_set) ==
  {m \in UNION {graph[x] : x \in ReachIn(graph, {as_set}, {})} : ~HasHyphen(m)}

\* irrtree_process, lines 432-466: the data given to print_asset_tree, for
\* a crawled graph and the number of prefixes of each AUT-NUM in it (taken
\* as disjoint)
IRRAsciiTreeData(graph, prefix_numbers) ==
  [root_as_set |-> Root,
   members_per_asset |-> graph,
   number_prefixes_per_asn |-> prefix_numbers,
   number_origin_asn_per_asset |->
     [k \in DOMAIN graph |-> Cardinality(OriginAsns(graph, k))],
   number_prefixes_per_asset |->
     [k \in DOMAIN graph |->
        SumOver(OriginAsns(graph, k), prefix_numbers)]]

Host == <<"r", "r", ".", "n", "t", "t", ".", "n", "e", "t">>

\* a date as IrrRunData holds it, read from a report
Dates == {[day |-> <<"2", "0", "2", "2", "-", "0", "8", "-", "2", "0">>, minute |-> <<"0", "2", ":", "5", "7">>, second |-> 0]}

InitPrinter ==
  /\ CrawlIdle
  /\ ResolverIdle
  /\ SessionIdle
  /\ TransformIdle
  /\ LexerIdle
  /\ CompareIdle
  /\ p_pc = "input"
  /\ \E total \in [RAsSets -> PrintedMemberSets] :
       \E numbers \in [RAutNums -> PrefixNumbers] :
         LET graph == [k \in Crawled(total) |-> total[k]]
             autnums == {m \in UNION {graph[k] : k \in DOMAIN graph} : ~HasHyphen(m)}
         IN p_data = IRRAsciiTreeData(graph, [m \in autnums |-> numbers[m]])
  /\ \E afi \in {4, 6} : \E date \in Dates :
       p_server = [irr_host |-> Host, afi |-> afi, date |-> date]
  /\ p_sorting \in {"by_name", "by_prefix_count"}
  /\ p_text = <<>>
  /\ p_parsed = <<>>
  /\ p_exc = "none"
  /\ p_text3 = <<>>

\* print_asset_tree(data, server_options, irrtree_options)
PrintAssetTree ==
  /\ p_pc = "input"
  /\ p_text' = print_asset_tree(p_data, p_server, p_sorting)
  /\ p_pc' = "printed"
  /\ UNCHANGED <<p_data, p_server, p_sorting, p_parsed, p_exc, p_text3>>
  /\ UNCHANGED non_printer_vars

\* parse_irrtree_return_irrasciitreedata(text)
ParseIrrtree ==
  /\ p_pc = "printed"
  /\ LET parsed == parse_irrtree_return_irrasciitreedata(p_text)
     IN /\ p_parsed' = parsed
        /\ p_exc' = parsed.exc
  /\ p_pc' = "parsed"
  /\ UNCHANGED <<p_data, p_server, p_sorting, p_text, p_text3>>
  /\ UNCHANGED non_printer_vars

\* print_asset_tree on the parsed data, with the server options taken
\* from the parsed metadata and the same printing options
PrintAgain ==
  /\ p_pc = "parsed"
  /\ p_exc = "none"
  /\ p_text3' = print_asset_tree(
                  p_parsed.data,
                  [irr_host |-> p_parsed.metadata.server,
                   afi |-> p_parsed.metadata.ipversion,
                   date |-> p_parsed.metadata.date],
                  p_sorting)
  /\ p_pc' = "printed_again"
  /\ UNCHANGED <<p_data, p_server, p_sorting, p_text, p_parsed, p_exc>>
  /\ UNCHANGED non_printer_vars

NextPrinter == PrintAssetTree \/ ParseIrrtree \/ PrintAgain

SpecPrinter == InitPrinter /\ [][NextPrinter]_vars

FailsNow(w) ==
  \/ taskA[w] = "pending" /\ taskA'[w] = "failed"
  \/ taskB[w] = "pending" /\ taskB'[w] = "failed"

\* the task of worker w is cancelled in this step
CancelledNow(w) ==
  \/ taskA[w] = "pending" /\ taskA'[w] = "cancelled"
  \/ taskB[w] = "pending" /\ taskB'[w] = "cancelled"

\* C31: in a step in which the task of a worker fails or is cancelled, the
\* Membership Graph, the Prefix Set and `visited` stay as they are and no
\* AS-SET is put on the queue; the identifier a failed worker holds has no
\* adjacency and no prefix set, nothing is put on the queue in that step,
\* and a cancelled worker holds no identifier.
C31_FailureLeavesMapsAlone ==
  [][\A w \in Workers :
       /\ (FailsNow(w) \/ CancelledNow(w)) =>
            /\ members_per_asset' = members_per_asset
            /\ prefixes_per_autun' = prefixes_per_autun
            /\ visited' = visited
            /\ \A i \in AllIds : HasHyphen(i) => enqueued'[i] = enqueued[i]
       /\ FailsNow(w) =>
            /\ item'[w] # None
            /\ item'[w] \notin DOMAIN members_per_asset'
            /\ item'[w] \notin DOMAIN prefixes_per_autun'
            /\ enqueued' = enqueued
            /\ queue' = queue \/ (queue # <<>> /\ queue' = Tail(queue))
       /\ CancelledNow(w) => item[w] = None /\ pc[w] = "get"]_vars

\* worker 1 has recorded the adjacency of the root, with AS-A in it, and
\* the query of worker 0 for AS-A has failed
C31_Witness ==
  /\ coord = "joinA"
  /\ taskA[0] = "failed"
  /\ exc[0] = "server_error"
  /\ item[0] = ASA
  /\ Root \in DOMAIN members_per_asset
  /\ ASA \in members_per_asset[Root]
  /\ ASA \in visited
  /\ ASA \notin DOMAIN members_per_asset

(***************************************************************************)
(* Phase A with one worker and a registry that answers every query, run    *)
(* to its drain: irrtree_process lines 308-343 and run_get_tree.           *)
(***************************************************************************)
non_compare_vars ==
  <<crawl_vars, resolver_vars, session_vars, transform_vars, lexer_vars,
    printer_vars>>

\* the root in lower case
asr == <<"a", "s", "-", "r">>

\* the AS-SETs the registry holds
RegistryAsSets == {ASR, ASA, ASB}

\* the roots and exclusion sets the caller may write
RootChoices == {ASR, asr}
CallerFilters == {{}, {ASB}, {asb}, {ASR}, {ASA, ASB}}

\* Worker.query for "!i": the registry looks the object up whatever its
\* letter case, and answers D for an object it does not hold
RegistryAnswer(registry, as_set) ==
  IF Upper(as_set) \in DOMAIN registry THEN registry[Upper(as_set)] ELSE {}

\* run_get_tree, lines 198-229, with one worker: todo is the queue, st
\* holds members_per_asset and visited
RECURSIVE run_get_tree(_, _, _, _, _)
run_get_tree(todo, st, registry, filtered_as_sets, backwards) ==
  IF todo = <<>> \/ st.exc # "none" THEN st
  ELSE IF Head(todo) \in DOMAIN st.members_per_asset
  THEN run_get_tree(Tail(todo), st, registry, filtered_as_sets, backwards)
  ELSE IF ~is_as_set(Head(todo))
  THEN [st EXCEPT !.exc = "not_an_as_set"]
  ELSE LET adj == Adjacency(ValidMembers(RegistryAnswer(registry, Head(todo))),
                            filtered_as_sets)
           graph == (Head(todo) :> adj) @@ st.members_per_asset
           new == ToEnqueue(adj, st.visited, graph)
       IN run_get_tree(Tail(todo) \o Iterate(new, backwards),
                       [st EXCEPT !.members_per_asset = graph,
                                  !.visited = @ \cup new],
                       registry, filtered_as_sets, backwards)

\* irrtree_process, lines 308-343: the Membership Graph of a drained crawl
PhaseA(root_as_set, registry, filtered_as_sets, backwards) ==
  run_get_tree(<<root_as_set>>,
               [members_per_asset |-> EmptyMap, visited |-> {root_as_set},
                exc |-> "none"],
               registry, filtered_as_sets, backwards)

InitCompare ==
  /\ CrawlIdle
  /\ ResolverIdle
  /\ SessionIdle
  /\ TransformIdle
  /\ LexerIdle
  /\ PrinterIdle
  /\ q_pc = "input"
  /\ q_root \in RootChoices
  /\ q_filters \in CallerFilters
  /\ q_registry \in [RegistryAsSets -> SUBSET RawTokens]
  /\ q_backwards \in BOOLEAN
  /\ q_crawled = <<>>
  /\ q_base = <<>>
  /\ q_filtered = <<>>

\* the crawl with the exclusion set
CrawlFiltering ==
  /\ q_pc = "input"
  /\ q_crawled' = PhaseA(q_root, q_registry, q_filters, q_backwards)
  /\ q_pc' = "crawled"
  /\ UNCHANGED <<q_root, q_filters, q_registry, q_backwards, q_base, q_filtered>>
  /\ UNCHANGED non_compare_vars

\* the crawl of the same registry with an empty exclusion set
CrawlAll ==
  /\ q_pc = "crawled"
  /\ q_base' = PhaseA(q_root, q_registry, {}, q_backwards)
  /\ q_pc' = "base"
  /\ UNCHANGED <<q_root, q_filters, q_registry, q_backwards, q_crawled,
                 q_filtered>>
  /\ UNCHANGED non_compare_vars

\* filter_from_graph(root, members of the second crawl, exclusion set)
FilterBase ==
  /\ q_pc = "base"
  /\ q_base.exc = "none"
  /\ q_filtered' = filter_from_graph(q_root, q_base.members_per_asset,
                                     q_filters, q_backwards)
  /\ q_pc' = "filtered"
  /\ UNCHANGED <<q_root, q_filters, q_registry, q_backwards, q_crawled, q_base>>
  /\ UNCHANGED non_compare_vars

NextCompare == CrawlFiltering \/ CrawlAll \/ FilterBase

SpecCompare == InitCompare /\ [][NextCompare]_vars

\* C32: for the same registry, root and exclusion set, the Membership Graph
\* of the crawl that filters while crawling equals filter_from_graph applied
\* to the graph of the crawl with an empty exclusion set.
C32_FilterWhileCrawlingIsFilterAfter ==
  q_pc = "filtered" =>
    /\ q_crawled.exc = "none"
    /\ q_crawled.members_per_asset = q_filtered

\* the same, for the exclusion sets that do not hold the root
C32_FilterAfterUnlessRootExcluded ==
  (q_pc = "filtered" /\ q_root \notin q_filters) =>
    /\ q_crawled.exc = "none"
    /\ q_crawled.members_per_asset = q_filtered

(***************************************************************************)
(* More properties of the graph transformations                            *)
(***************************************************************************)
\* no AS-SET of the graph lies on a cycle
Acyclic(graph) == \A x \in DOMAIN graph : ~OnCycle(graph, x)

\* C33: on a Membership Graph without a cycle remove_recursivity_from_tree
\* does not raise and returns a graph equal to its input and an empty set
\* of removed links.
C33_AcyclicIsUnchanged ==
  (t_pc = "remove_recursivity_from_tree" /\ Acyclic(t_graph)) =>
    /\ t_exc = "none"
    /\ t_new = t_graph
    /\ t_removed = {}

\* the same for the runs that return
C33_AcyclicIsUnchangedWhenReturned ==
  (t_pc = "remove_recursivity_from_tree" /\ Acyclic(t_graph) /\ t_exc = "none") =>
    /\ t_new = t_graph
    /\ t_removed = {}

\* the AS-SETs reachable from the root that list themselves as a member
SelfMembers(graph) == {x \in ReachableIn(graph, Root, {}) : x \in graph[x]}

\* C34: for a Membership Graph in which an AS-SET s (reachable from the
\* root) lists itself as a member, remove_recursivity_from_tree does not
\* raise, removes s from the members of s and records the link (s, s).
C34_SelfMembershipIsRemoved ==
  (t_pc = "remove_recursivity_from_tree" /\ SelfMembers(t_graph) # {}) =>
    /\ t_exc = "none"
    /\ \A x \in SelfMembers(t_graph) : x \notin t_new[x] /\ <<x, x>> \in t_removed

\* the same for the runs that return
C34_SelfMembershipIsRemovedWhenReturned ==
  (t_pc = "remove_recursivity_from_tree" /\ t_exc = "none") =>
    \A x \in SelfMembers(t_graph) : x \notin t_new[x] /\ <<x, x>> \in t_removed

(***************************************************************************)
(* irrtree_process between the two phases and after them: the Membership   *)
(* Graph Phase A left is pruned and de-cycled as the options say, Phase B  *)
(* resolves the AUT-NUMs of what is left, and the closures are resolved    *)
(* and aggregated.                                                         *)
(***************************************************************************)
\* the Membership Graphs Phase A leaves when it ends by drain: the root is
\* a key, every AS-SET that is a member was dequeued and is a key, and
\* every key was reached from the root
CrawledGraphs ==
  UNION {{g \in [K -> MemberSets] :
            /\ \A k \in K : \A m \in g[k] : HasHyphen(m) => m \in K
            /\ ReachableIn(g, Root, {}) = K} :
         K \in {S \in SUBSET RAsSets : Root \in S}}

\* the values of irr_server_options.search tried
SearchChoices == {None, AS1, AS2}

InitProcess ==
  /\ CrawlIdle
  /\ ResolverIdle
  /\ SessionIdle
  /\ LexerIdle
  /\ PrinterIdle
  /\ CompareIdle
  /\ t_pc = "crawled"
  /\ t_graph \in CrawledGraphs
  /\ t_arg = {}
  /\ t_new = EmptyMap
  /\ t_removed = {}
  /\ t_exc = "none"
  /\ t_objects = t_graph
  /\ t_new_ids = EmptyMap

\* irrtree_process, lines 352-356: filter_autnum if search is set
Pruned(search, graph) ==
  IF search # None THEN filter_autnum(Root, {search}, graph) ELSE graph

\* irrtree_process, lines 360-364: remove_recursivity_from_tree if asked
Decycled(remove_recursivity_option, graph) ==
  IF remove_recursivity_option
  THEN remove_recursivity_from_tree(Root, graph)
  ELSE [members_per_asset |-> graph, removed_links |-> {}, exc |-> "none"]

\* get_origin_asns_from_members, lines 263-272: the call for the root of
\* the graph that was processed; line 164 raises KeyError if the root is
\* not a key of it
StartResolver(graph) ==
  /\ as_sets_members' = graph
  /\ IF Root \in DOMAIN graph
     THEN /\ rstack' = <<[as_set |-> Root, todo |-> graph[Root],
                          nr_origin_asns |-> {}, recursive_parent |-> None,
                          candidates |-> {}]>>
          /\ rstate' = "run"
          /\ calls' = 1
     ELSE /\ rstack' = <<>>
          /\ rstate' = "KeyError"
          /\ calls' = 1
  /\ UNCHANGED <<origin_ases_per_asset, recursive_as_sets, root_rp, agg_vars>>

\* irrtree_process, lines 352-424: the transformations between the phases
\* and the call of the resolver on what they left
Process ==
  /\ t_pc = "crawled"
  /\ \E search \in SearchChoices, remove_recursivity_option \in BOOLEAN :
       LET st == Decycled(remove_recursivity_option, Pruned(search, t_graph))
       IN /\ t_arg' = {search} \ {None}
          /\ t_exc' = st.exc
          /\ t_removed' = IF st.exc = "none" THEN st.removed_links ELSE {}
          /\ IF st.exc = "none"
             THEN /\ t_pc' = "processed"
                  /\ t_new' = st.members_per_asset
                  /\ StartResolver(st.members_per_asset)
             ELSE /\ t_pc' = "raised"
                  /\ t_new' = EmptyMap
                  /\ UNCHANGED resolver_vars
  /\ UNCHANGED <<t_graph, t_objects, t_new_ids>>
  /\ UNCHANGED <<crawl_vars, session_vars, lexer_vars, printer_vars, compare_vars>>

NextProcess == Process \/ Member \/ Return \/ Aggregate

SpecProcess == InitProcess /\ [][NextProcess]_vars

\* C35: when both phases have ended by drain every AUT-NUM of the closure
\* of every AS-SET has an entry in the Prefix Set, so that the aggregation
\* does not raise "We did not preload prefixes", also when the graph was
\* pruned or de-cycled between the phases.
C35_ClosuresArePreloaded ==
  /\ agg # "exception"
  /\ rstate = "returned" =>
       \A x \in DOMAIN origin_ases_per_asset :
         origin_ases_per_asset[x] \subseteq AsnObjects(as_sets_members)
  /\ agg = "done" =>
       \A x \in DOMAIN origin_ases_per_asset :
         origin_ases_per_asset[x] \subseteq DOMAIN prefixes_per_autun

\* a graph that was pruned to the AS-SETs that lead to AS1, aggregated
C35_Witness ==
  /\ agg = "done"
  /\ t_arg = {AS1}
  /\ t_graph[ASR] = {ASA, ASB, AS2}
  /\ DOMAIN t_new = {ASR, ASA}
  /\ origin_ases_per_asset[ASR] = {AS1}
  /\ prefixes_per_autun = (AS1 :> {<<"p">>})

\* a graph whose self-membership was cut, aggregated
C35_WitnessDecycled ==
  /\ agg = "done"
  /\ t_arg = {}
  /\ t_removed = {<<ASR, ASR>>}
  /\ origin_ases_per_asset[ASR] = {AS1}

\* a graph that was neither pruned nor de-cycled, aggregated
C35_WitnessPlain ==
  /\ agg = "done"
  /\ t_arg = {}
  /\ t_new = t_graph
  /\ DOMAIN t_graph = RAsSets
  /\ origin_ases_per_asset[ASA] = {AS1, AS2}

(***************************************************************************)
(* Letter case in the crawl                                                *)
(***************************************************************************)
\* C36: every identifier of the Membership Graph a crawl builds, key or
\* member, is in upper case, and no member is, in upper case, equal to the
\* upper case of an identifier of the exclusion set, whatever letter case
\* the caller wrote the root and the exclusion set in.
C36_GraphIsUpperCase ==
  (q_pc # "input" /\ q_crawled.exc = "none") =>
    LET graph == q_crawled.members_per_asset
    IN /\ \A k \in DOMAIN graph : k = Upper(k)
       /\ \A k \in DOMAIN graph : \A m \in graph[k] : m = Upper(m)
       /\ \A k \in DOMAIN graph :
            graph[k] \cap {Upper(f) : f \in q_filters} = {}

\* what the crawl does: the members, and with them every key but the
\* root, are in upper case; the root is a key as the caller wrote it and
\* the exclusion set is looked up as the caller wrote it
C36_MembersAreUpperCase ==
  (q_pc # "input" /\ q_crawled.exc = "none") =>
    LET graph == q_crawled.members_per_asset
    IN /\ q_root \in DOMAIN graph
       /\ \A k \in DOMAIN graph \ {q_root} : k = Upper(k)
       /\ \A k \in DOMAIN graph : \A m \in graph[k] : m = Upper(m)
       /\ \A k \in DOMAIN graph : graph[k] \cap q_filters = {}

\* a root written in lower case is a key of the graph in lower case
C36_LowerCaseRootIsKey ==
  /\ q_pc = "crawled"
  /\ q_root = asr
  /\ {asr, ASA} \subseteq DOMAIN q_crawled.members_per_asset
  /\ ASR \in q_crawled.members_per_asset[ASA]
  /\ ASR \in DOMAIN q_crawled.members_per_asset

\* an exclusion written in lower case excludes nothing
C36_LowerCaseExclusionIsIgnored ==
  /\ q_pc = "crawled"
  /\ q_root = ASR
  /\ q_filters = {asb}
  /\ ASB \in q_crawled.members_per_asset[ASR]
  /\ ASB \in DOMAIN q_crawled.members_per_asset

(***************************************************************************)
(* Termination of Phase A.  The event loop runs every task that is ready   *)
(* (a worker whose queue.get() can return or whose awaited line has        *)
(* arrived, the coordinator whose asyncio.wait can return), and the        *)
(* registry sends a line for every command: weak fairness of the steps of  *)
(* each worker and of the coordinator.                                     *)
(***************************************************************************)
WorkerStep(w) == Get(w) \/ Status(w) \/ Payload(w) \/ Close(w)

SpecCrawlFair ==
  /\ SpecCrawl
  /\ \A w \in Workers : WF_vars(WorkerStep(w))
  /\ WF_vars(CoordA \/ CoordB)

\* Phase A has ended: join_queue_or_workers has returned or raised
PhaseAEnded == coord # "joinA"

\* C37: under fair scheduling, with a registry that answers every command,
\* Phase A ends: the queue drains or a worker fails, and the coordinator
\* does not wait forever; no AS-SET is queried for its members more than
\* once.
C37_PhaseAEnds ==
  /\ <>PhaseAEnded
  /\ [](\A i \in AllIds : asked[i] <= 1)

\* Phase A drained after three AS-SETs were queried, one of them again
\* after a restart of the session
C37_Witness ==
  /\ coord = "joinB"
  /\ DOMAIN members_per_asset = {ASR, ASA, ASB}
  /\ \E w \in Workers : restarted[w] = 1
  /\ \A i \in DOMAIN members_per_asset : asked[i] = 1

(***************************************************************************)
(* The origin resolver on graphs that need not be complete: some of the    *)
(* AS-SETs are keys, and a member may be an AS-SET that is not.            *)
(***************************************************************************)
\* the graphs with one or two of the three AS-SETs as keys
PartialGraphs ==
  UNION {[K -> MemberSets] : K \in (SUBSET RAsSets) \ {{}, RAsSets}}

\* the AS-SETs that are members in the graph and are not keys of it
Undiscovered(graph) ==
  {m \in UNION {graph[k] : k \in DOMAIN graph} :
     HasHyphen(m) /\ m \notin DOMAIN graph}

InitPartial ==
  /\ CrawlIdle
  /\ SessionIdle
  /\ TransformIdle
  /\ LexerIdle
  /\ PrinterIdle
  /\ CompareIdle
  /\ as_sets_members \in PartialGraphs
  /\ rstack = <<>>
  /\ origin_ases_per_asset = EmptyMap
  /\ recursive_as_sets = EmptyMap
  /\ rstate = "idle"
  /\ root_rp = None
  /\ calls = 0
  /\ number_prefixes_per_asset = EmptyMap
  /\ number_origin_asn_per_asset = EmptyMap
  /\ agg = "none"

\* get_origin_asns_from_members(Root, as_sets_members) is called
Call ==
  /\ rstate = "idle"
  /\ StartResolver(as_sets_members)
  /\ UNCHANGED non_resolver_vars

NextPartial == Call \/ Member \/ Return \/ Aggregate

SpecPartial == InitPartial /\ [][NextPartial]_vars

\* C38: on a Membership Graph in which an AS-SET that is not a key is a
\* member, get_origin_asns_from_members does not return: the resolution
\* ends with an error and no closure map is handed on.
C38_UndiscoveredMemberFails ==
  Undiscovered(as_sets_members) # {} =>
    /\ rstate # "returned"
    /\ agg = "none"
    /\ (rstate # "idle" /\ rstack = <<>>) =>
         rstate \in {"KeyError", "assert_rp", "assert_recursive",
                     "assert_keys", "exception"}

\* the resolver met the undiscovered AS-SET after it had resolved another
C38_Witness ==
  /\ as_sets_members = (ASR :> {ASA, ASB, AS1}) @@ (ASA :> {AS2})
  /\ rstate = "KeyError"
  /\ DOMAIN origin_ases_per_asset = {ASA}

\* the undiscovered AS-SET is a member of an AS-SET the root does not
\* reach: the last assertion fails
C38_WitnessUnreached ==
  /\ as_sets_members = (ASR :> {AS1}) @@ (ASA :> {ASB})
  /\ rstate = "assert_keys"
  /\ origin_ases_per_asset = (ASR :> {AS1})
====
